---- MODULE Spec2Model ----
(***************************************************************************)
(* Tiered media backup pipeline of nixOS-immich-webui.                     *)
(*                                                                         *)
(* The module holds several state machines over groups of variables:       *)
(*   SpecTier      the Tiering Engine (config/tiering.go)                  *)
(*   SpecPipeline  ProcessDirectory and the File Registry                  *)
(*   SpecJobs      the Job Store lifecycle and the start/stop handlers     *)
(*   SpecWrite     the temp-file-then-rename save of the stores            *)
(*   SpecRun       one job run under runBackupJob, with the State Store    *)
(*   SpecLoad      LoadConfig                                              *)
(*   SpecMonitor   the Space Monitor                                       *)
(*   SpecVideo     VideoProcessor.ProcessVideo                             *)
(*   SpecStart     StartJob step by step, under concurrent start requests  *)
(*   SpecState     the State Store calls of the workers of one run         *)
(*   SpecProcess   ProcessDirectory: phases, progress callbacks, worker    *)
(*                 pool (SpecProcessFair adds the scheduler's fairness)    *)
(*   SpecRegistry  SpecPipeline with FileTracker.MarkFileError             *)
(*   SpecRetention JobManager.CleanupOldJobs                               *)
(*   SpecConfig    HandleBackupConfigSave                                  *)
(*   SpecDiscovery the patterns of a job and discoverFiles under them      *)
(*   SpecScale     the scale filter of transcodeVideo                      *)
(* Each specification leaves the variables of the other groups at their    *)
(* initial values.                                                         *)
(***************************************************************************)
EXTENDS Integers, Sequences, FiniteSets, TLC

VARIABLES
    \* ---- Tiering Engine ----
    teConfig,          \* *BackupConfig held by the TieringEngine
    adjustmentActive,  \* TieringEngine.adjustmentActive
    currentUsage,      \* TieringEngine.currentUsage
    tierOut,           \* the last DetermineTier call: its inputs and its result
    \* ---- Processing Pipeline and File Registry ----
    fsys,              \* the source tree: path -> content of the file at that path
    processedFiles,    \* FileTracker.processedFiles: key -> ProcessedFile
    run,               \* the ProcessDirectory call in progress and its ProcessingResult
    workers,           \* the worker goroutines of processFiles: position and file in hand
    runNo,             \* number of ProcessDirectory calls started so far
    log,               \* what each run did with each file it dequeued
    \* ---- Job Store and the job handlers ----
    jobs,              \* jobs/<id>.yaml: job id -> BackupJob, or NoJob when there is no file
    locks,             \* jobs/active/<id>.lock: the ids whose lock file exists
    usedIds,           \* the ids generateJobID has handed out
    insts,             \* the runBackupJob goroutines launched, in launch order
    call,              \* the last Job Store lifecycle call and what it returned
    started,           \* the ids for which a StartJob call has returned nil
    now,               \* the clock time.Now reads
    \* ---- The files of the stores ----
    files,             \* path -> content of the file at that path, or NoFile
    saver,             \* per store: the save call in progress, under the store's mutex
    saved,             \* save calls begun so far
    seen,              \* the last read of a target file: what the reader got
    \* ---- One job run: ProcessDirectory under runBackupJob, and the State Store ----
    pd,                \* per runBackupJob goroutine: its ProcessDirectory call
    jobStates,         \* state/progress-<id>.json: job id -> JobState, or NoJobState
    smErrs,            \* the State Store calls that returned "job state not found"
    \* ---- LoadConfig ----
    loadFile,          \* the configuration file LoadConfig reads
    loadOut,           \* what LoadConfig returned
    \* ---- Space Monitor ----
    smClock,           \* the clock, in minutes
    disk,              \* the sum of the file sizes under dataPath
    spaceMonitor,      \* SpaceMonitor.usedSpace and lastCheck
    lastScan,          \* the last walk of dataPath GetCurrentUsage made
    usageOut,          \* the last GetCurrentUsage call and what it returned
    \* ---- Video Processor ----
    vp,                \* VideoProcessor: whether ffmpegPath and ffprobePath are set
    videoOut,          \* the last ProcessVideo call: its inputs and what it did
    \* ---- Concurrent start requests ----
    starters,          \* per HandleStartJob request: its position in StartJob and its copy
                       \* of the job record
    \* ---- The State Store under the workers of one run ----
    jsFile,            \* state/progress-<id>.json of the job: its JobState, or none
    sw,                \* per worker: its position and the *JobState GetJobState gave it
    sq,                \* the work channel and processedCount
    ledger,            \* what the transformations of the run came to
    \* ---- ProcessDirectory: phases, callbacks and the worker pool ----
    pr,                \* the ProcessDirectory call: its job, its phase, its progress record
    pw,                \* the worker goroutines processFiles has started
    dispatch,          \* per discovered file: who received it and what was done with it
    callbacks,         \* the ProcessingProgress values handed to job.ProgressCallback
    \* ---- Job retention ----
    jobFiles,          \* jobs/<id>.yaml as ListJobs finds them: status and dates in days
    today,             \* time.Now() of the CleanupOldJobs call, in days
    cleanupOut,        \* the last CleanupOldJobs call: daysToKeep and the jobs it found
    \* ---- The configuration form ----
    bhConfig,          \* *BackupConfig the handlers and the pipeline share (bh.config)
    configFiles,       \* per data directory: the config file saved under it, or none
    saveOut,           \* the last HandleBackupConfigSave request and how it ended
    \* ---- Discovery under the patterns of a job ----
    srcTree,           \* the files under the source path of the job
    discovered,        \* the last job made from the form and what its discovery found
    \* ---- The scale filter of transcodeVideo ----
    scaleOut           \* the last transcodeVideo call: its sizes and the filter it built

tierVars == <<teConfig, adjustmentActive, currentUsage, tierOut>>
pipeVars == <<fsys, processedFiles, run, workers, runNo, log>>
jobVars  == <<jobs, locks, usedIds, insts, call, started, now>>

writeVars == <<files, saver, saved, seen>>
runVars  == <<pd, jobStates, smErrs>>
loadVars == <<loadFile, loadOut>>
monVars  == <<smClock, disk, spaceMonitor, lastScan, usageOut>>
videoVars == <<vp, videoOut>>
raceVars == <<starters>>
stateVars == <<jsFile, sw, sq, ledger>>
procVars == <<pr, pw, dispatch, callbacks>>
retainVars == <<jobFiles, today, cleanupOut>>
configVars == <<bhConfig, configFiles, saveOut>>
discVars == <<srcTree, discovered>>
scaleVars == <<scaleOut>>

vars == <<tierVars, pipeVars, jobVars, writeVars, runVars, loadVars, monVars, videoVars, raceVars, stateVars, procVars, retainVars, configVars, discVars, scaleVars>>

(***************************************************************************)
(* Bounds of the model                                                     *)
(***************************************************************************)
MaxTiers == 2          \* longest tier catalog drawn by Init
MaxAgeDays == 4        \* oldest file age drawn, in whole days
MaxInitFiles == 2      \* most files in the source tree before the first run
MaxRuns == 2           \* ProcessDirectory calls in one behaviour
MaxWorkers == 2        \* largest worker pool of a run
MaxJobs == 2           \* jobs created in one behaviour
MaxCalls == 4          \* handler calls in one behaviour
MaxProgress == 1       \* progress callbacks of one runBackupJob
MaxSaves == 2          \* save calls in one behaviour
MaxChunks == 2         \* write system calls os.WriteFile needs for one record
MaxClock == 7          \* minutes the Space Monitor is followed for
MaxRunFiles == 2       \* most files the discovery of a job run finds
MaxDay == 3            \* latest day a job is created or completed on
MaxStarters == 2       \* HandleStartJob requests in flight at once
MaxStateFiles == 3     \* files of the run whose State Store calls are followed
MaxProcFiles == 2      \* most files a ProcessDirectory call discovers

(***************************************************************************)
(* Program constants                                                       *)
(***************************************************************************)
HoursPerDay == 24      \* fileAge.Hours() / 24
MaxCRF == 51           \* legal maximum of VideoCRF
MinAdjustedQuality == 50
StorageLimit == 10     \* maxUsage, in units of storage
PressurePercent == 90  \* SpacePressureThreshold 0.9
CacheMinutes == 5      \* GetCurrentUsage walks again once lastCheck is 5 minutes old

(***************************************************************************)
(* Time is counted in hours.  NowHours is the instant time.Since reads.    *)
(***************************************************************************)
NowHours == (MaxAgeDays + 2) * HoursPerDay

FileDates ==
    { NowHours - (d * HoursPerDay + h) : d \in 0..MaxAgeDays, h \in {0, HoursPerDay - 1} }

(***************************************************************************)
(* Paths are strings, modelled as sequences of characters, so that         *)
(* filepath.HasPrefix is the plain string prefix it is in Go.              *)
(***************************************************************************)
FolderA  == <<"/", "a">>
FolderAslashB == <<"/", "a", "/", "b">>   \* a subfolder of /a
FolderAB == <<"/", "a", "b">>             \* a sibling of /a whose name starts with "a"
Folders  == {FolderA, FolderAslashB, FolderAB}

FilePaths ==
    { <<"/", "a", "/", "x">>,            \* under /a
      <<"/", "a", "/", "b", "/", "x">>,  \* under /a and under /a/b
      <<"/", "a", "b", "/", "x">>,       \* under /ab only
      <<"/", "c", "/", "x">> }           \* under no configured folder

HasPrefix(s, p) == Len(p) <= Len(s) /\ SubSeq(s, 1, Len(p)) = p

\* the path lies inside the folder: folder, separator, then more
Under(path, folder) == HasPrefix(path, folder \o <<"/">>)

(***************************************************************************)
(* Quality tiers                                                           *)
(***************************************************************************)
TierNames == <<"T1", "T2", "T3", "T4">>
PhotoQualities == <<92, 88, 80, 51>>
Thresholds == {1, 3}
CRFs == {20, 50}
Steps == {1, 2, 10}

\* tier at catalog position i
MkTier(i, th, crf) ==
    [Name |-> TierNames[i], AgeThresholdDays |-> th,
     PhotoQuality |-> PhotoQualities[i], VideoCRF |-> crf, MetadataLevel |-> "full"]

NoTier == [Name |-> "", AgeThresholdDays |-> 0, PhotoQuality |-> 0, VideoCRF |-> 0,
           MetadataLevel |-> ""]

Catalogs ==
    UNION { { [i \in 1..n |-> MkTier(i, th[i], crf[i])] :
                th \in [1..n -> Thresholds], crf \in [1..n -> CRFs] } : n \in 1..MaxTiers }

\* the catalog of GetDefaultConfig
DefaultTiers ==
    << [Name |-> "High Quality (0-12 months)", AgeThresholdDays |-> 365,
        PhotoQuality |-> 92, VideoCRF |-> 20, MetadataLevel |-> "full"],
       [Name |-> "Medium Quality (1-3 years)", AgeThresholdDays |-> 1095,
        PhotoQuality |-> 88, VideoCRF |-> 23, MetadataLevel |-> "essential"],
       [Name |-> "Space Optimized (3+ years)", AgeThresholdDays |-> 999999,
        PhotoQuality |-> 80, VideoCRF |-> 26, MetadataLevel |-> "minimal"] >>

DefaultStep == 2

\* names a folder override or a date-range exception may carry; "nosuch" is in no catalog
PrefTierNames == {"T1", "T2", "nosuch"}

FolderOverrideSets ==
    UNION { [fs -> PrefTierNames] : fs \in SUBSET Folders }

DateRanges ==
    { [StartDate |-> s, EndDate |-> e, ForceTier |-> t] :
        s \in {NowHours - 2 * HoursPerDay}, e \in {NowHours - HoursPerDay}, t \in {"T1", "T2"} }

DateRangeLists == {<<>>} \cup { <<r>> : r \in DateRanges }

\* a two-tier catalog with increasing thresholds, for the configurations that vary the
\* user preferences
BaseTiers == << MkTier(1, 1, 20), MkTier(2, 3, 50) >>

\* configurations varying the catalog and the adjustment step, without user preferences
CatalogConfigs ==
    [QualityTiers : Catalogs,
     QualityAdjustmentStep : Steps,
     FolderOverrides : {<<>>},
     DateRangeExceptions : {<<>>}]

\* configurations varying the folder overrides and the date-range exceptions
PrefConfigs ==
    [QualityTiers : {BaseTiers},
     QualityAdjustmentStep : {DefaultStep},
     FolderOverrides : FolderOverrideSets,
     DateRangeExceptions : DateRangeLists]

Configs == CatalogConfigs \cup PrefConfigs

(***************************************************************************)
(* BackupConfig.Validate, the check LoadConfig applies.  DataDir is taken   *)
(* as set.                                                                 *)
(***************************************************************************)
MetadataLevels == {"full", "essential", "minimal"}

Validate(c) ==
    /\ StorageLimit > 0
    /\ Len(c.QualityTiers) > 0
    /\ \A i \in 1..Len(c.QualityTiers) :
          /\ c.QualityTiers[i].Name # ""
          /\ c.QualityTiers[i].PhotoQuality >= 1
          /\ c.QualityTiers[i].PhotoQuality <= 100
          /\ c.QualityTiers[i].VideoCRF >= 0
          /\ c.QualityTiers[i].VideoCRF <= MaxCRF
          /\ c.QualityTiers[i].MetadataLevel \in MetadataLevels

\* thresholds strictly increase along the catalog
StrictlyIncreasing(tiers) ==
    \A i \in 1..Len(tiers) - 1 : tiers[i].AgeThresholdDays < tiers[i + 1].AgeThresholdDays

(***************************************************************************)
(* BackupConfig.GetTierByAge: ageDays := int(fileAge.Hours() / 24), then   *)
(* the first tier with ageDays <= AgeThresholdDays, else the last tier.    *)
(***************************************************************************)
AgeDays(ageHours) ==
    IF ageHours >= 0 THEN ageHours \div HoursPerDay
    ELSE -((-ageHours) \div HoursPerDay)

RECURSIVE FirstTierFrom(_, _, _)
FirstTierFrom(tiers, i, ageDays) ==
    IF i > Len(tiers) THEN tiers[Len(tiers)]
    ELSE IF ageDays <= tiers[i].AgeThresholdDays THEN tiers[i]
    ELSE FirstTierFrom(tiers, i + 1, ageDays)

\* the loop with ageDays < AgeThresholdDays in place of <=
RECURSIVE FirstTierStrictFrom(_, _, _)
FirstTierStrictFrom(tiers, i, ageDays) ==
    IF i > Len(tiers) THEN tiers[Len(tiers)]
    ELSE IF ageDays < tiers[i].AgeThresholdDays THEN tiers[i]
    ELSE FirstTierStrictFrom(tiers, i + 1, ageDays)

GetTierByAgeStrict(tiers, ageHours) == FirstTierStrictFrom(tiers, 1, AgeDays(ageHours))

GetTierByAge(tiers, ageHours) == FirstTierFrom(tiers, 1, AgeDays(ageHours))

(***************************************************************************)
(* TieringEngine.checkFolderOverrides.  The overrides are a Go map, whose  *)
(* iteration order is unspecified: every matching folder whose tier name   *)
(* is in the catalog can be the one the loop meets first.                  *)
(***************************************************************************)
TierNamed(tiers, name) ==
    LET idx == { i \in 1..Len(tiers) : tiers[i].Name = name }
    IN  IF idx = {} THEN NoTier
        ELSE tiers[CHOOSE i \in idx : \A k \in idx : i <= k]

HasTierNamed(tiers, name) == \E i \in 1..Len(tiers) : tiers[i].Name = name

checkFolderOverrides(cfg, filePath) ==
    { TierNamed(cfg.QualityTiers, cfg.FolderOverrides[f]) :
        f \in { g \in DOMAIN cfg.FolderOverrides :
                  /\ HasPrefix(filePath, g)
                  /\ HasTierNamed(cfg.QualityTiers, cfg.FolderOverrides[g]) } }

(***************************************************************************)
(* TieringEngine.checkDateRangeExceptions: the first exception, in list    *)
(* order, with fileDate.After(Start) && fileDate.Before(End) whose tier    *)
(* name is in the catalog.                                                 *)
(***************************************************************************)
DateRangeMatches(cfg, fileDate) ==
    { i \in 1..Len(cfg.DateRangeExceptions) :
        /\ fileDate > cfg.DateRangeExceptions[i].StartDate
        /\ fileDate < cfg.DateRangeExceptions[i].EndDate
        /\ HasTierNamed(cfg.QualityTiers, cfg.DateRangeExceptions[i].ForceTier) }

checkDateRangeExceptions(cfg, fileDate) ==
    LET m == DateRangeMatches(cfg, fileDate)
    IN  IF m = {} THEN {}
        ELSE { TierNamed(cfg.QualityTiers,
                         cfg.DateRangeExceptions[CHOOSE i \in m : \A k \in m : i <= k].ForceTier) }

(***************************************************************************)
(* TieringEngine.applySpacePressureAdjustment                              *)
(***************************************************************************)
\* the adjustment without the upper limit on the compression level
applySpacePressureAdjustmentUnbounded(tier, step) ==
    [tier EXCEPT !.VideoCRF = @ + step,
                 !.PhotoQuality = IF @ - step >= MinAdjustedQuality THEN @ - step ELSE @]

applySpacePressureAdjustment(tier, step) ==
    [tier EXCEPT !.VideoCRF = IF @ + step <= MaxCRF THEN @ + step ELSE @,
                 !.PhotoQuality = IF @ - step >= MinAdjustedQuality THEN @ - step ELSE @]

\* the catalog if the tier handed out were the catalog's own element
QualityTiersAliased(tiers, returned) ==
    [i \in DOMAIN tiers |-> IF tiers[i].Name = returned.Name THEN returned ELSE tiers[i]]

\* the catalog after a call has handed out a tier: `for _, tier := range` and
\* `adjustedTier := tier` copy the struct, so no element of the slice is written
QualityTiersAfter(tiers, returned) == tiers

(***************************************************************************)
(* TieringEngine.DetermineTier: the set of (rule, tier) outcomes of one    *)
(* call.  Only the folder-override rule has more than one outcome.         *)
(***************************************************************************)
DetermineTierResults(cfg, active, fileDate, filePath) ==
    LET byFolder == checkFolderOverrides(cfg, filePath)
        byDate   == checkDateRangeExceptions(cfg, fileDate)
        base     == GetTierByAge(cfg.QualityTiers, NowHours - fileDate)
    IN  IF byFolder # {} THEN { [rule |-> "folder", tier |-> t] : t \in byFolder }
        ELSE IF byDate # {} THEN { [rule |-> "date", tier |-> t] : t \in byDate }
        ELSE { [rule |-> "age",
                tier |-> IF active
                         THEN applySpacePressureAdjustment(base, cfg.QualityAdjustmentStep)
                         ELSE base] }

(***************************************************************************)
(* Processing Pipeline and File Registry                                   *)
(*                                                                         *)
(* Paths are numbered in the lexical order filepath.Walk visits them.      *)
(* Contents are opaque byte strings; calculateFileHash is SHA-256, taken   *)
(* as an injective map from contents to hex strings, none of them empty.   *)
(***************************************************************************)
Paths == 1..(MaxInitFiles + 1)
Contents == {"c1", "c2"}
Workers == 1..MaxWorkers

calculateFileHash(content) == IF content = "c1" THEN "h1" ELSE "h2"

\* the zero value of a Go string
EmptyString == ""

\* IsPhotoFile / IsVideoFile: the extension decides; odd paths carry a photo extension
FileType(path) == IF path % 2 = 1 THEN "photo" ELSE "video"

\* the source trees a first run can meet: files 1..k, any contents
InitialTrees ==
    UNION { [1..k -> Contents] : k \in 0..MaxInitFiles }

RECURSIVE SortedSeq(_)
SortedSeq(S) ==
    IF S = {} THEN <<>>
    ELSE LET m == CHOOSE x \in S : \A y \in S : x <= y
         IN  <<m>> \o SortedSeq(S \ {m})

\* discoverFiles: every media file of the tree, in walk order
discoverFiles(tree) == SortedSeq(DOMAIN tree)

NoResult == [Status |-> "", TotalFiles |-> 0, ProcessedFiles |-> 0, FailedFiles |-> 0,
             Errors |-> <<>>]

IdleRun == [phase |-> "idle", files |-> <<>>, workChan |-> <<>>, concurrency |-> 0,
            processedCount |-> 0, photoResults |-> <<>>, videoResults |-> <<>>,
            result |-> NoResult]

IdleWorker == [pc |-> "idle", file |-> 0]

PipeStart(trees) ==
    /\ fsys \in trees
    /\ processedFiles = <<>>
    /\ run = IdleRun
    /\ workers = [w \in Workers |-> IdleWorker]
    /\ runNo = 0
    /\ log = {}


(***************************************************************************)
(* Job Store: the state                                                    *)
(***************************************************************************)
JobIds == 1..MaxJobs

\* the value GetJob has nothing to return for: no jobs/<id>.yaml
NoJob == [present |-> FALSE, Status |-> "", StartedAt |-> 0, LastRunAt |-> 0,
          CompletedAt |-> 0, ErrorMessage |-> "", ProcessedFiles |-> 0, LastUpdated |-> 0]

NoStoreCall == [seq |-> 0, op |-> "", job |-> 0, err |-> FALSE, io |-> "ok"]

(***************************************************************************)
(* The files of the stores.  A file holds the first len chunks of the      *)
(* serialisation of record rec; it is a complete record when len is        *)
(* MaxChunks.                                                              *)
(***************************************************************************)
Stores == {"jobstate", "job", "registry"}
NoFile == [rec |-> 0, len |-> 0, exists |-> FALSE]
FileOf(rec, len) == [rec |-> rec, len |-> len, exists |-> TRUE]
Complete(f) == f.exists /\ f.rec > 0 /\ f.len = MaxChunks
IdleSaver == [pc |-> "idle", rec |-> 0]

\* filePath, the file the readers of the store open
targetFile(s) == <<s, "">>
\* a save whose temporary file is the target itself
tempFileInPlace(s) == <<s, "">>

\* tempFile := filePath + ".tmp"
tempFile(s) == <<s, ".tmp">>

FilePathsOf == { <<s, suffix>> : s \in Stores, suffix \in {"", ".tmp"} }

WriteStart ==
    /\ files = [p \in FilePathsOf |-> NoFile]
    /\ saver = [s \in Stores |-> IdleSaver]
    /\ saved = 0
    /\ seen = [store |-> "", content |-> NoFile, pc |-> "idle", rec |-> 0]

(***************************************************************************)
(* One job run: the state                                                  *)
(***************************************************************************)
NoJobState == [present |-> FALSE, ProcessedFiles |-> 0, ErrorCount |-> 0,
               CompressedFiles |-> 0, PhaseStats |-> {}]

\* afterCancel counts the files the run took from the work channel while the persisted
\* status of its job was canceled
IdlePD == [phase |-> "idle", rootReadable |-> TRUE, TotalFiles |-> 0, queued |-> 0,
           inFlight |-> 0, concurrency |-> 0, processedCount |-> 0, errors |-> 0,
           Status |-> "", err |-> FALSE, success |-> FALSE, afterCancel |-> 0]

RunStart ==
    /\ pd = [i \in 1..MaxCalls |-> IdlePD]
    /\ jobStates = [j \in JobIds |-> NoJobState]
    /\ smErrs = {}

(***************************************************************************)
(* LoadConfig: the state                                                   *)
(***************************************************************************)
NoConfigFile == [exists |-> FALSE, QualityTiers |-> <<>>]
NoLoad == [called |-> FALSE, err |-> FALSE, QualityTiers |-> <<>>]

LoadStart(candidates) ==
    /\ loadFile \in candidates
    /\ loadOut = NoLoad

(***************************************************************************)
(* Space Monitor: the state after NewSpaceMonitor, which sets lastCheck to *)
(* time.Now() and leaves usedSpace at zero                                 *)
(***************************************************************************)
NoScan == [done |-> FALSE, at |-> 0, size |-> 0]
NoUsageCall == [called |-> FALSE, err |-> FALSE, value |-> 0, at |-> 0]

MonitorStart(sizes) ==
    /\ smClock = 0
    /\ disk \in sizes
    /\ spaceMonitor = [usedSpace |-> 0, lastCheck |-> 0]
    /\ lastScan = NoScan
    /\ usageOut = NoUsageCall

(***************************************************************************)
(* Video Processor: the state after NewVideoProcessor, which looks ffmpeg  *)
(* and ffprobe up and goes on without either                               *)
(***************************************************************************)
NoVideoMetadata == [Height |-> 0, FrameRate |-> 0, VideoCodec |-> ""]

NoVideoCall == [called |-> FALSE, video |-> NoVideoMetadata, metadata |-> NoVideoMetadata,
                VideoMaxHeight |-> 0, VideoMaxFPS |-> 0, did |-> "", err |-> FALSE]

VideoTools == [ffmpeg : BOOLEAN, ffprobe : BOOLEAN]
BothTools == [ffmpeg |-> TRUE, ffprobe |-> TRUE]

VideoStart(tools) ==
    /\ vp \in tools
    /\ videoOut = NoVideoCall

(***************************************************************************)
(* Concurrent start requests: the state.  net/http serves each request in  *)
(* its own goroutine.                                                      *)
(***************************************************************************)
Starters == 1..MaxStarters

IdleStarter == [pc |-> "idle", job |-> 0, rec |-> NoJob, err |-> FALSE, io |-> "ok"]

RaceStart ==
    starters = [c \in Starters |-> IdleStarter]

(***************************************************************************)
(* The State Store under the workers of one run: the state when            *)
(* processFiles starts its workers.  No JobState has been written yet:     *)
(* AddPhaseStats does not create one.                                      *)
(***************************************************************************)
AbsentJobState == [present |-> FALSE, ProcessedFiles |-> 0, ErrorCount |-> 0,
                   OriginalBytes |-> 0, CompressedBytes |-> 0]

\* the JobState UpdateJobProgress makes when GetJobState finds none
NewJobState == [AbsentJobState EXCEPT !.present = TRUE]

IdleStateWorker == [pc |-> "idle", file |-> 0, op |-> "", base |-> AbsentJobState,
                    state |-> AbsentJobState]

NoLedger == [OriginalBytes |-> 0, CompressedBytes |-> 0, failed |-> 0, overwritten |-> 0]

StateStart(counts) ==
    /\ jsFile = AbsentJobState
    /\ sw = [w \in Workers |-> IdleStateWorker]
    /\ sq \in { [files |-> n, next |-> 1, processedCount |-> 0, done |-> FALSE] : n \in counts }
    /\ ledger = NoLedger

(***************************************************************************)
(* Job retention: the job files CleanupOldJobs meets.  Dates are whole     *)
(* days; NoDate is the nil of a *time.Time.  CompleteJob and CancelJob set *)
(* CompletedAt, so a completed, failed or canceled job has one, on or      *)
(* after the day it was created, and a pending or running job has none.    *)
(***************************************************************************)
NoDate == -1

NoJobFile == [present |-> FALSE, Status |-> "", CreatedAt |-> 0, CompletedAt |-> NoDate]

NoJobFiles == [j \in JobIds |-> NoJobFile]

JobFileRecords ==
    {NoJobFile}
    \cup { [present |-> TRUE, Status |-> st, CreatedAt |-> c, CompletedAt |-> NoDate] :
             st \in {"pending", "running"}, c \in 0..MaxDay }
    \cup { r \in [present : {TRUE}, Status : {"completed", "failed", "canceled"},
                  CreatedAt : 0..MaxDay, CompletedAt : 0..MaxDay] :
             r.CreatedAt <= r.CompletedAt }

NoCleanup == [called |-> FALSE, daysToKeep |-> 0, before |-> NoJobFiles]

RetentionStart(stores) ==
    /\ jobFiles \in stores
    /\ today = MaxDay
    /\ cleanupOut = NoCleanup

(***************************************************************************)
(* The configuration form: the fields HandleBackupConfigSave sets.  The    *)
(* handlers and the pipeline hold the same *BackupConfig.  At start it is  *)
(* a configuration ValidateBackupConfig accepts.                           *)
(***************************************************************************)
\* data directories: the parent of the first exists and can be written, the parent of
\* the second does not exist
DataDirs == {"/var/backup", "/nosuch/backup"}

StartConfig == [DataDir |-> "/var/backup", StorageLimitGB |-> 100, JobRetentionDays |-> 30,
                LogLevel |-> "info", MaxConcurrentJobs |-> 2]

NoSavedConfig == [saved |-> FALSE, config |-> StartConfig]

NoSave == [called |-> FALSE, rejected |-> FALSE, err |-> FALSE]

ConfigStart ==
    /\ bhConfig = StartConfig
    /\ configFiles = [dir \in DataDirs |-> NoSavedConfig]
    /\ saveOut = NoSave

(***************************************************************************)
(* Discovery under the patterns of a job.  A string is the sequence of its *)
(* pieces: a separator, a comma, a star, a name, an extension.             *)
(***************************************************************************)
SourceFiles ==
    { <<"/", "src", "/", "a", ".jpg">>,
      <<"/", "src", "/", "tmp", "/", "b", ".mp4">>,
      <<"/", "src", "/", "tmp", "/", "c", ".jpg">>,
      <<"/", "src", "/", "d", ".txt">> }

NoDiscovery == [called |-> FALSE, include_patterns |-> <<>>, exclude_patterns |-> <<>>,
                files |-> {}]

DiscoveryStart(trees) ==
    /\ srcTree \in trees
    /\ discovered = NoDiscovery

(***************************************************************************)
(* transcodeVideo: no call yet                                             *)
(***************************************************************************)
NoScale == [called |-> FALSE, Width |-> 0, Height |-> 0, VideoMaxHeight |-> 0,
            scaled |-> FALSE, newWidth |-> 0, newHeight |-> 0]

ScaleStart == scaleOut = NoScale

(***************************************************************************)
(* ProcessDirectory: the state before the call                             *)
(***************************************************************************)
IdleProc == [phase |-> "idle", MaxConcurrency |-> 0, MaxConcurrentJobs |-> 0,
             hasCallback |-> FALSE, tree |-> 0, TotalFiles |-> 0, sized |-> 0,
             totalSize |-> 0, TotalBytes |-> 0, next |-> 1, processedCount |-> 0,
             concurrency |-> 0]

NoDispatch == [by |-> {}, dequeued |-> 0, skipped |-> 0, transformed |-> 0, failed |-> 0]

ProcStart ==
    /\ pr = IdleProc
    /\ pw = <<>>
    /\ dispatch = [f \in 1..MaxProcFiles |-> NoDispatch]
    /\ callbacks = <<>>

JobStart ==
    /\ jobs = [j \in JobIds |-> NoJob]
    /\ locks = {}
    /\ usedIds = {}
    /\ insts = <<>>
    /\ call = NoStoreCall
    /\ started = {}
    /\ now = 1

(***************************************************************************)
(* Actions of the Tiering Engine                                           *)
(***************************************************************************)
NoCall == [called |-> FALSE, fileDate |-> 0, filePath |-> <<>>, active |-> FALSE,
           rule |-> "", tier |-> NoTier]

TierStart(cfgs) ==
    /\ teConfig \in cfgs
    /\ adjustmentActive = FALSE
    /\ currentUsage = 0
    /\ tierOut = NoCall

TierInit ==
    /\ TierStart({ c \in Configs : Validate(c) })
    /\ PipeStart({<<>>})
    /\ JobStart
    /\ WriteStart
    /\ RunStart
    /\ LoadStart({NoConfigFile})
    /\ MonitorStart({0})
    /\ VideoStart({BothTools})
    /\ RaceStart
    /\ StateStart({0})
    /\ ProcStart
    /\ RetentionStart({NoJobFiles})
    /\ ConfigStart
    /\ DiscoveryStart({{}})
    /\ ScaleStart

\* DetermineTier(fileDate, filePath)
DetermineTier ==
    /\ \E fileDate \in FileDates, filePath \in FilePaths :
         \E r \in DetermineTierResults(teConfig, adjustmentActive, fileDate, filePath) :
            /\ tierOut' = [called |-> TRUE, fileDate |-> fileDate, filePath |-> filePath,
                           active |-> adjustmentActive, rule |-> r.rule, tier |-> r.tier]
            /\ teConfig' = [teConfig EXCEPT
                               !.QualityTiers = QualityTiersAfter(@, r.tier)]
    /\ UNCHANGED <<adjustmentActive, currentUsage>>
    /\ UNCHANGED <<pipeVars, jobVars, writeVars, runVars, loadVars, monVars, videoVars, raceVars, stateVars, procVars, retainVars, configVars, discVars, scaleVars>>

\* UpdateSpaceUsage: usage is what the Space Monitor reports
UsageLevels == {0, 10}

UpdateSpaceUsage ==
    /\ \E usage \in UsageLevels :
         /\ currentUsage' = usage
         /\ adjustmentActive' = (usage * 100 > StorageLimit * PressurePercent)
    /\ UNCHANGED <<teConfig, tierOut>>
    /\ UNCHANGED <<pipeVars, jobVars, writeVars, runVars, loadVars, monVars, videoVars, raceVars, stateVars, procVars, retainVars, configVars, discVars, scaleVars>>

TierNext == DetermineTier \/ UpdateSpaceUsage

SpecTier == TierInit /\ [][TierNext]_vars

(***************************************************************************)
(* Claims about the Tiering Engine                                         *)
(***************************************************************************)
WholeDays(ageHours) == ageHours % HoursPerDay = 0

\* the tier the catalog contract names for an age in whole days: the first tier, in
\* catalog order, whose threshold is >= the age, and the last tier when there is none
ContractTier(tiers, days) ==
    LET ok == { i \in 1..Len(tiers) : tiers[i].AgeThresholdDays >= days }
    IN  IF ok = {} THEN tiers[Len(tiers)]
        ELSE tiers[CHOOSE i \in ok : \A k \in ok : i <= k]

\* C7: for a catalog with strictly increasing thresholds and an age in whole days, the
\* tier resolved by age is the first tier whose threshold is >= the age, and the last
\* tier when no threshold is; with thresholds [365, 1095, unbounded], 10 days gives
\* tier 1, 400 days tier 2 and 5000 days the last tier.
C7_TierByAge ==
    /\ ( /\ tierOut.called
         /\ tierOut.rule = "age"
         /\ ~tierOut.active
         /\ StrictlyIncreasing(teConfig.QualityTiers)
         /\ WholeDays(NowHours - tierOut.fileDate) )
       => tierOut.tier =
            ContractTier(teConfig.QualityTiers, (NowHours - tierOut.fileDate) \div HoursPerDay)
    /\ tierOut.called =>
         /\ GetTierByAge(DefaultTiers, 10 * HoursPerDay) = DefaultTiers[1]
         /\ GetTierByAge(DefaultTiers, 365 * HoursPerDay) = DefaultTiers[1]
         /\ GetTierByAge(DefaultTiers, 400 * HoursPerDay) = DefaultTiers[2]
         /\ GetTierByAge(DefaultTiers, 5000 * HoursPerDay) = DefaultTiers[3]

\* a two-tier catalog with increasing thresholds resolved a file aged between the two
\* thresholds to the second tier, and one older than both to the last tier
C7_Witness ==
    /\ tierOut.called
    /\ tierOut.rule = "age"
    /\ ~tierOut.active
    /\ Len(teConfig.QualityTiers) = 2
    /\ StrictlyIncreasing(teConfig.QualityTiers)
    /\ WholeDays(NowHours - tierOut.fileDate)
    /\ (NowHours - tierOut.fileDate) \div HoursPerDay > teConfig.QualityTiers[1].AgeThresholdDays
    /\ (NowHours - tierOut.fileDate) \div HoursPerDay <= teConfig.QualityTiers[2].AgeThresholdDays
    /\ tierOut.tier = teConfig.QualityTiers[2]

\* C8: a file whose path lies under a configured folder override whose tier name is in
\* the catalog resolves to that named tier, whatever its age and whether or not a
\* date-range exception matches its timestamp.
C8_FolderPrecedence ==
    tierOut.called =>
        \A f \in DOMAIN teConfig.FolderOverrides :
            ( /\ Under(tierOut.filePath, f)
              /\ HasTierNamed(teConfig.QualityTiers, teConfig.FolderOverrides[f]) )
            => tierOut.tier = TierNamed(teConfig.QualityTiers, teConfig.FolderOverrides[f])

\* C35: the tier a DetermineTier call returned is the tier every call with the same
\* configuration, pressure state, file path and timestamp returns.
C35_DeterministicTier ==
    tierOut.called =>
        \A r \in DetermineTierResults(teConfig, tierOut.active,
                                      tierOut.fileDate, tierOut.filePath) :
            r.tier = tierOut.tier

\* C9: an age-resolved tier keeps its video compression level c while pressure is
\* inactive, gets c + step while pressure is active and c + step <= 51, and never gets
\* a level above 51; CRF 20 with step 2 gives 22.
C9_SpacePressure ==
    /\ (tierOut.called /\ tierOut.rule = "age") =>
         LET base == GetTierByAge(teConfig.QualityTiers, NowHours - tierOut.fileDate)
             c    == base.VideoCRF
             step == teConfig.QualityAdjustmentStep
         IN  /\ ~tierOut.active => tierOut.tier.VideoCRF = c
             /\ (tierOut.active /\ c + step <= MaxCRF) => tierOut.tier.VideoCRF = c + step
             /\ tierOut.tier.VideoCRF <= MaxCRF
    /\ tierOut.called =>
         /\ DefaultTiers[1].VideoCRF = 20
         /\ applySpacePressureAdjustment(DefaultTiers[1], DefaultStep).VideoCRF = 22
         /\ \A i \in 1..Len(DefaultTiers), step \in 1..10 :
               applySpacePressureAdjustment(DefaultTiers[i], step).VideoCRF <= MaxCRF

\* under pressure a tier at level 50 met a step that would pass 51 and kept a legal level
C9_Witness ==
    /\ tierOut.called
    /\ tierOut.rule = "age"
    /\ tierOut.active
    /\ GetTierByAge(teConfig.QualityTiers, NowHours - tierOut.fileDate).VideoCRF
         + teConfig.QualityAdjustmentStep > MaxCRF
    /\ tierOut.tier.VideoCRF <= MaxCRF

\* under pressure a tier at level 20 was resolved with step 2 to level 22
C9_WitnessStep ==
    /\ tierOut.called
    /\ tierOut.rule = "age"
    /\ tierOut.active
    /\ teConfig.QualityAdjustmentStep = 2
    /\ GetTierByAge(teConfig.QualityTiers, NowHours - tierOut.fileDate).VideoCRF = 20
    /\ tierOut.tier.VideoCRF = 22

\* C16: whenever pressure is active, the tier a call returns is the pressure-adjusted
\* form of the catalog tier it resolved to, whichever rule (folder override, date-range
\* exception or age) resolved it.
C16_PressureAppliedLast ==
    (tierOut.called /\ tierOut.active) =>
        tierOut.tier =
            applySpacePressureAdjustment(TierNamed(teConfig.QualityTiers, tierOut.tier.Name),
                                         teConfig.QualityAdjustmentStep)

\* C17: for a file whose path matches no folder override, an exception whose tier is in
\* the catalog and whose window has start <= t < end forces its tier, t = start
\* included; when no exception has start <= t < end the date rule does not apply.
C17_HalfOpenWindow ==
    ( /\ tierOut.called
      /\ \A f \in DOMAIN teConfig.FolderOverrides : ~HasPrefix(tierOut.filePath, f) )
    => LET ex == teConfig.DateRangeExceptions
           t  == tierOut.fileDate
           inside == { i \in 1..Len(ex) :
                         /\ ex[i].StartDate <= t
                         /\ t < ex[i].EndDate
                         /\ HasTierNamed(teConfig.QualityTiers, ex[i].ForceTier) }
       IN  /\ \A i \in inside :
                 (\A k \in inside : i <= k) =>
                     /\ tierOut.rule = "date"
                     /\ tierOut.tier.Name = ex[i].ForceTier
           /\ inside = {} => tierOut.rule # "date"

\* C18: no step changes the catalog, and the tier a call returns differs from the
\* catalog tier of its name in nothing but video compression level and photo quality.
C18_CatalogImmutable ==
    /\ [][teConfig'.QualityTiers = teConfig.QualityTiers]_vars
    /\ [](tierOut.called =>
            LET cat == TierNamed(teConfig.QualityTiers, tierOut.tier.Name)
            IN  /\ HasTierNamed(teConfig.QualityTiers, tierOut.tier.Name)
                /\ [tierOut.tier EXCEPT !.VideoCRF = cat.VideoCRF,
                                        !.PhotoQuality = cat.PhotoQuality] = cat)

\* a call made under pressure returned an adjusted tier, pressure has since gone off,
\* and the catalog tier of that name still has its own parameters
C18_Witness ==
    /\ tierOut.called
    /\ tierOut.active
    /\ ~adjustmentActive
    /\ tierOut.tier.VideoCRF # TierNamed(teConfig.QualityTiers, tierOut.tier.Name).VideoCRF
    /\ tierOut.tier.PhotoQuality #
           TierNamed(teConfig.QualityTiers, tierOut.tier.Name).PhotoQuality

(***************************************************************************)
(* FileTracker.IsFileProcessed and AddProcessedFile                        *)
(***************************************************************************)
IsFileProcessed(reg, tree, path) == calculateFileHash(tree[path]) \in DOMAIN reg

AddProcessedFile(reg, file) ==
    [k \in DOMAIN reg \cup {file.OriginalHash} |->
        IF k = file.OriginalHash THEN file ELSE reg[k]]

\* the ProcessedFile processFiles builds from a result: OriginalHash is not among the
\* fields it sets and keeps its zero value
trackedFile(result) ==
    [OriginalPath |-> result.OriginalPath,
     OriginalHash |-> EmptyString,
     Status |-> IF result.Error THEN "error" ELSE "completed"]

(***************************************************************************)
(* ProcessDirectory up to the start of the workers: discovery, the work    *)
(* channel filled and closed, processedCount := 0.                         *)
(***************************************************************************)
ProcessDirectoryStart ==
    /\ run.phase \in {"idle", "done"}
    /\ runNo < MaxRuns
    /\ \E n \in 1..MaxWorkers :
         run' = [IdleRun EXCEPT !.phase = "processing",
                                !.files = discoverFiles(fsys),
                                !.workChan = discoverFiles(fsys),
                                !.concurrency = n]
    /\ runNo' = runNo + 1
    /\ workers' = [w \in Workers |-> IdleWorker]
    /\ UNCHANGED <<fsys, processedFiles, log>>
    /\ UNCHANGED <<tierVars, jobVars, writeVars, runVars, loadVars, monVars, videoVars, raceVars, stateVars, procVars, retainVars, configVars, discVars, scaleVars>>

\* a worker receives the next file from the channel and counts it, under mu
WorkerDequeue(w) ==
    /\ run.phase = "processing"
    /\ w <= run.concurrency
    /\ workers[w].pc = "idle"
    /\ run.workChan # <<>>
    /\ workers' = [workers EXCEPT ![w] = [pc |-> "check", file |-> Head(run.workChan)]]
    /\ run' = [run EXCEPT !.workChan = Tail(@), !.processedCount = @ + 1]
    /\ UNCHANGED <<fsys, processedFiles, runNo, log>>
    /\ UNCHANGED <<tierVars, jobVars, writeVars, runVars, loadVars, monVars, videoVars, raceVars, stateVars, procVars, retainVars, configVars, discVars, scaleVars>>

\* the worker asks the registry whether the file is already archived; if so it goes on
\* to the next file
WorkerCheck(w) ==
    /\ run.phase = "processing"
    /\ workers[w].pc = "check"
    /\ IF IsFileProcessed(processedFiles, fsys, workers[w].file)
       THEN /\ workers' = [workers EXCEPT ![w] = IdleWorker]
            /\ log' = log \cup {[run |-> runNo, path |-> workers[w].file, kind |-> "skipped"]}
       ELSE /\ workers' = [workers EXCEPT ![w].pc = "process"]
            /\ log' = log
    /\ UNCHANGED <<fsys, processedFiles, run, runNo>>
    /\ UNCHANGED <<tierVars, jobVars, writeVars, runVars, loadVars, monVars, videoVars, raceVars, stateVars, procVars, retainVars, configVars, discVars, scaleVars>>

\* ProcessPhoto / ProcessVideo on the file in hand, then the bookkeeping of processFiles:
\* on success the file is recorded in the registry; in both cases the result is appended
Transform(w, failed) ==
    LET path   == workers[w].file
        result == [OriginalPath |-> path, Error |-> failed]
    IN  /\ processedFiles' =
             IF failed THEN processedFiles
             ELSE AddProcessedFile(processedFiles, trackedFile(result))
        /\ run' = IF FileType(path) = "photo"
                  THEN [run EXCEPT !.photoResults = Append(@, result)]
                  ELSE [run EXCEPT !.videoResults = Append(@, result)]
        /\ log' = log \cup {[run |-> runNo, path |-> path,
                             kind |-> IF failed THEN "failed" ELSE "ok"]}
        /\ workers' = [workers EXCEPT ![w] = IdleWorker]

WorkerProcess(w) ==
    /\ run.phase = "processing"
    /\ workers[w].pc = "process"
    /\ \E failed \in BOOLEAN : Transform(w, failed)
    /\ UNCHANGED <<fsys, runNo>>
    /\ UNCHANGED <<tierVars, jobVars, writeVars, runVars, loadVars, monVars, videoVars, raceVars, stateVars, procVars, retainVars, configVars, discVars, scaleVars>>

(***************************************************************************)
(* ProcessDirectory after wg.Wait: the final statistics and the status     *)
(***************************************************************************)
FailedOf(results) == SelectSeq(results, LAMBDA r : r.Error)

ErrorEntries(r) ==
    [i \in 1..Len(FailedOf(r.photoResults) \o FailedOf(r.videoResults)) |->
        (FailedOf(r.photoResults) \o FailedOf(r.videoResults))[i].OriginalPath]

FinalStatus(errors, processedFiles_) ==
    IF Len(errors) = 0 THEN "completed"
    ELSE IF processedFiles_ > 0 THEN "completed_with_errors"
    ELSE "failed"

ProcessingResult(r) ==
    [Status |-> FinalStatus(ErrorEntries(r), r.processedCount),
     TotalFiles |-> Len(r.files),
     ProcessedFiles |-> r.processedCount,
     FailedFiles |-> Len(ErrorEntries(r)),
     Errors |-> ErrorEntries(r)]

ProcessDirectoryFinish ==
    /\ run.phase = "processing"
    /\ run.workChan = <<>>
    /\ \A w \in Workers : workers[w].pc = "idle"
    /\ run' = [run EXCEPT !.phase = "done", !.result = ProcessingResult(run)]
    /\ UNCHANGED <<fsys, processedFiles, workers, runNo, log>>
    /\ UNCHANGED <<tierVars, jobVars, writeVars, runVars, loadVars, monVars, videoVars, raceVars, stateVars, procVars, retainVars, configVars, discVars, scaleVars>>

\* between two runs a file of the tree is copied to a new path, bytes unchanged
CopyFile ==
    /\ run.phase = "done"
    /\ \E src \in DOMAIN fsys :
         /\ Len(fsys) + 1 \in Paths
         /\ fsys' = Append(fsys, fsys[src])
    /\ UNCHANGED <<processedFiles, run, workers, runNo, log>>
    /\ UNCHANGED <<tierVars, jobVars, writeVars, runVars, loadVars, monVars, videoVars, raceVars, stateVars, procVars, retainVars, configVars, discVars, scaleVars>>

PipeInit ==
    /\ PipeStart(InitialTrees)
    /\ TierStart({CHOOSE c \in Configs : Validate(c)})
    /\ JobStart
    /\ WriteStart
    /\ RunStart
    /\ LoadStart({NoConfigFile})
    /\ MonitorStart({0})
    /\ VideoStart({BothTools})
    /\ RaceStart
    /\ StateStart({0})
    /\ ProcStart
    /\ RetentionStart({NoJobFiles})
    /\ ConfigStart
    /\ DiscoveryStart({{}})
    /\ ScaleStart

PipeNext ==
    \/ ProcessDirectoryStart
    \/ \E w \in Workers : WorkerDequeue(w)
    \/ \E w \in Workers : WorkerCheck(w)
    \/ \E w \in Workers : WorkerProcess(w)
    \/ ProcessDirectoryFinish
    \/ CopyFile

SpecPipeline == PipeInit /\ [][PipeNext]_vars

(***************************************************************************)
(* Claims about the pipeline and the registry                              *)
(***************************************************************************)
Events(r, kinds) == { e \in log : e.run = r /\ e.kind \in kinds }

\* the files a run handed to a transformer
Transformed(r) == { e.path : e \in Events(r, {"ok", "failed"}) }

\* the second run has ended and met the tree the first run met
SecondRunOverSameTree ==
    /\ runNo = 2
    /\ run.phase = "done"
    /\ { run.files[i] : i \in 1..Len(run.files) } = { e.path : e \in Events(1, {"ok", "failed", "skipped"}) }

\* C1: after two runs in sequence over the same unmodified tree the registry holds
\* exactly one record per distinct content archived, and the second run skips every
\* file the first run archived (no transformer call for it, and it is reported skipped).
C1_Idempotence ==
    SecondRunOverSameTree =>
        /\ \A e \in Events(1, {"ok"}) :
              /\ [run |-> 2, path |-> e.path, kind |-> "skipped"] \in log
              /\ e.path \notin Transformed(2)
        /\ Cardinality(DOMAIN processedFiles)
             = Cardinality({ fsys[e.path] : e \in Events(1, {"ok"}) \cup Events(2, {"ok"}) })

\* C2: once a run has archived a content, no later run hands a file at another path
\* with the same content to a transformer, and IsFileProcessed is true of such a file.
C2_RenameSafety ==
    /\ \A e \in log : e.kind \in {"ok", "failed"} =>
          ~ \E e0 \in log :
               /\ e0.run < e.run
               /\ e0.kind = "ok"
               /\ e0.path # e.path
               /\ fsys[e0.path] = fsys[e.path]
    /\ run.phase = "done" =>
          \A path \in DOMAIN fsys :
              (\E e0 \in log : e0.kind = "ok" /\ e0.path # path /\ fsys[e0.path] = fsys[path])
              => IsFileProcessed(processedFiles, fsys, path)

\* C3: a run that discovers N files of which F fail, 0 < F < N, returns status
\* completed_with_errors, ProcessedFiles = N - F and exactly F error entries.
C3_PartialFailure ==
    run.phase = "done" =>
        LET N == Len(run.files)
            F == Cardinality(Events(runNo, {"failed"}))
        IN  (0 < F /\ F < N) =>
               /\ run.result.Status = "completed_with_errors"
               /\ run.result.ProcessedFiles = N - F
               /\ Len(run.result.Errors) = F

\* C4: the final status is completed exactly when no file failed, completed_with_errors
\* exactly when some file failed and some file succeeded, and failed when every one of
\* the N >= 1 discovered files failed.
C4_FinalStatus ==
    run.phase = "done" =>
        LET N == Len(run.files)
            F == Cardinality(Events(runNo, {"failed"}))
            S == Cardinality(Events(runNo, {"ok"}))
        IN  /\ run.result.Status = "completed" <=> F = 0
            /\ run.result.Status = "completed_with_errors" <=> (F >= 1 /\ S >= 1)
            /\ (N >= 1 /\ F = N) => run.result.Status = "failed"

(***************************************************************************)
(* The registry with MarkFileError, the FileTracker's record of a failed   *)
(* attempt, called between the steps of the runs                           *)
(***************************************************************************)
\* ft.processedFiles[hash] of a hash the map does not hold: the zero ProcessedFile
ZeroProcessedFile == [OriginalPath |-> 0, OriginalHash |-> EmptyString, Status |-> EmptyString]

MarkFileError(reg, tree, path) ==
    LET hash == calculateFileHash(tree[path])
        file == IF hash \in DOMAIN reg THEN reg[hash] ELSE ZeroProcessedFile
    IN  [k \in DOMAIN reg \cup {hash} |->
            IF k = hash THEN [file EXCEPT !.Status = "error"] ELSE reg[k]]

MarkError ==
    /\ \E path \in DOMAIN fsys :
         processedFiles' = MarkFileError(processedFiles, fsys, path)
    /\ UNCHANGED <<fsys, run, workers, runNo, log>>
    /\ UNCHANGED <<tierVars, jobVars, writeVars, runVars, loadVars, monVars, videoVars, raceVars, stateVars, procVars, retainVars, configVars, discVars, scaleVars>>

RegistryNext == PipeNext \/ MarkError

SpecRegistry == PipeInit /\ [][RegistryNext]_vars

\* C34: a worker skips a file as already processed only when the registry holds, for
\* the content of the file, a record with status completed.
C34_ErrorRecordsNotSkipped ==
    [][\A w \in Workers :
          (workers[w].pc = "check" /\ workers'[w].pc = "idle") =>
              LET hash == calculateFileHash(fsys[workers[w].file])
              IN  /\ hash \in DOMAIN processedFiles
                  /\ processedFiles[hash].Status = "completed"]_vars

\* C28: every registry record is stored under the hash of the content of the file it
\* records, and once a run has ended the registry holds one record for every distinct
\* content a run has archived.
C28_ContentHashKeys ==
    /\ \A k \in DOMAIN processedFiles :
          k = calculateFileHash(fsys[processedFiles[k].OriginalPath])
    /\ run.phase = "done" =>
          Cardinality(DOMAIN processedFiles)
            = Cardinality({ fsys[e.path] : e \in { e0 \in log : e0.kind = "ok" } })

(***************************************************************************)
(* Job Store: lifecycle operations                                         *)
(*                                                                         *)
(* io is the fate of the file-system writes of one call: "ok", "lockfail"  *)
(* (the lock file cannot be created) or "savefail" (saveJob returns an     *)
(* error and jobs/<id>.yaml keeps its content).                            *)
(***************************************************************************)
IoOutcomes == {"ok", "lockfail", "savefail"}

Returned(op, j, err, io) ==
    call' = [seq |-> call.seq + 1, op |-> op, job |-> j, err |-> err, io |-> io]

\* UpdateJob: stamps Statistics.LastUpdated and saves
UpdateJob(j, job) == [jobs EXCEPT ![j] = [job EXCEPT !.LastUpdated = now]]

\* StartJob without the test of the status
StartJobNoGuard(j, io) ==
    IF ~jobs[j].present \/ io = "lockfail"
    THEN /\ Returned("StartJob", j, TRUE, io)
         /\ UNCHANGED <<jobs, locks>>
    ELSE /\ locks' = locks \cup {j}
         /\ IF io = "savefail"
            THEN /\ jobs' = jobs
                 /\ Returned("StartJob", j, TRUE, io)
            ELSE /\ jobs' = UpdateJob(j, [jobs[j] EXCEPT !.Status = "running",
                                                         !.StartedAt = now,
                                                         !.LastRunAt = now])
                 /\ Returned("StartJob", j, FALSE, io)

StartJob(j, io) ==
    IF ~jobs[j].present \/ jobs[j].Status # "pending" \/ io = "lockfail"
    THEN /\ Returned("StartJob", j, TRUE, io)
         /\ UNCHANGED <<jobs, locks>>
    ELSE /\ locks' = locks \cup {j}
         /\ IF io = "savefail"
            THEN /\ jobs' = jobs
                 /\ Returned("StartJob", j, TRUE, io)
            ELSE /\ jobs' = UpdateJob(j, [jobs[j] EXCEPT !.Status = "running",
                                                         !.StartedAt = now,
                                                         !.LastRunAt = now])
                 /\ Returned("StartJob", j, FALSE, io)

\* CancelJob removing the lock file before it looks at the status
CancelJobUnlockFirst(j, io) ==
    IF ~jobs[j].present
    THEN /\ Returned("CancelJob", j, TRUE, io)
         /\ UNCHANGED <<jobs, locks>>
    ELSE /\ locks' = locks \ {j}
         /\ IF jobs[j].Status # "running" \/ io = "savefail"
            THEN /\ jobs' = jobs
                 /\ Returned("CancelJob", j, TRUE, io)
            ELSE /\ jobs' = UpdateJob(j, [jobs[j] EXCEPT !.Status = "canceled",
                                                         !.CompletedAt = now])
                 /\ Returned("CancelJob", j, FALSE, io)

CancelJob(j, io) ==
    IF ~jobs[j].present \/ jobs[j].Status # "running"
    THEN /\ Returned("CancelJob", j, TRUE, io)
         /\ UNCHANGED <<jobs, locks>>
    ELSE /\ locks' = locks \ {j}
         /\ IF io = "savefail"
            THEN /\ jobs' = jobs
                 /\ Returned("CancelJob", j, TRUE, io)
            ELSE /\ jobs' = UpdateJob(j, [jobs[j] EXCEPT !.Status = "canceled",
                                                         !.CompletedAt = now])
                 /\ Returned("CancelJob", j, FALSE, io)

CompleteJob(j, success, errorMsg, io) ==
    IF ~jobs[j].present
    THEN /\ Returned("CompleteJob", j, TRUE, io)
         /\ UNCHANGED <<jobs, locks>>
    ELSE /\ locks' = locks \ {j}
         /\ IF io = "savefail"
            THEN /\ jobs' = jobs
                 /\ Returned("CompleteJob", j, TRUE, io)
            ELSE /\ jobs' = UpdateJob(j, [jobs[j] EXCEPT
                                !.CompletedAt = now,
                                !.Status = IF success THEN "completed" ELSE "failed",
                                !.ErrorMessage = IF success THEN "" ELSE errorMsg])
                 /\ Returned("CompleteJob", j, FALSE, io)

\* JobManager.UpdateJobProgress: the statistics replaced in the record GetJob returns
UpdateJobProgress(j, processed, io) ==
    IF ~jobs[j].present \/ io = "savefail"
    THEN jobs' = jobs
    ELSE jobs' = UpdateJob(j, [jobs[j] EXCEPT !.ProcessedFiles = processed])

\* CreateJob: a pending job under a fresh id
CreateJob(j, io) ==
    /\ jobs' = IF io = "savefail" THEN jobs
               ELSE [jobs EXCEPT ![j] = [NoJob EXCEPT !.present = TRUE,
                                                     !.Status = "pending",
                                                     !.LastUpdated = now]]
    /\ Returned("CreateJob", j, io = "savefail", io)

\* DeleteJob: the job file moved to jobs/completed; the lock file is not touched
DeleteJob(j) ==
    /\ jobs' = [jobs EXCEPT ![j] = NoJob]
    /\ Returned("DeleteJob", j, ~jobs[j].present, "ok")

(***************************************************************************)
(* The handlers, each one call of the Job Store, and runBackupJob          *)
(***************************************************************************)
NewInst(j) == [job |-> j, pc |-> "get", progress |-> 0]

HandleCreateJob ==
    /\ now <= MaxCalls
    /\ Cardinality(usedIds) < MaxJobs
    /\ LET j == Cardinality(usedIds) + 1
       IN  /\ \E io \in {"ok", "savefail"} : CreateJob(j, io)
           /\ usedIds' = usedIds \cup {j}
    /\ now' = now + 1
    /\ UNCHANGED <<locks, insts, started>>
    /\ UNCHANGED <<tierVars, pipeVars, writeVars, runVars, loadVars, monVars, videoVars, raceVars, stateVars, procVars, retainVars, configVars, discVars, scaleVars>>

\* HandleStartJob: runBackupJob is launched only when StartJob returned nil
HandleStartJob(j) ==
    /\ now <= MaxCalls
    /\ \E io \in IoOutcomes : StartJob(j, io)
    /\ insts' = IF call'.err THEN insts ELSE Append(insts, NewInst(j))
    /\ started' = IF call'.err THEN started ELSE started \cup {j}
    /\ now' = now + 1
    /\ UNCHANGED usedIds
    /\ UNCHANGED <<tierVars, pipeVars, writeVars, runVars, loadVars, monVars, videoVars, raceVars, stateVars, procVars, retainVars, configVars, discVars, scaleVars>>

HandleStopJob(j) ==
    /\ now <= MaxCalls
    /\ \E io \in {"ok", "savefail"} : CancelJob(j, io)
    /\ now' = now + 1
    /\ UNCHANGED <<usedIds, insts, started>>
    /\ UNCHANGED <<tierVars, pipeVars, writeVars, runVars, loadVars, monVars, videoVars, raceVars, stateVars, procVars, retainVars, configVars, discVars, scaleVars>>

HandleDeleteJob(j) ==
    /\ now <= MaxCalls
    /\ DeleteJob(j)
    /\ now' = now + 1
    /\ UNCHANGED <<locks, usedIds, insts, started>>
    /\ UNCHANGED <<tierVars, pipeVars, writeVars, runVars, loadVars, monVars, videoVars, raceVars, stateVars, procVars, retainVars, configVars, discVars, scaleVars>>

\* the error GetJob returns: loadJob wraps the error of os.ReadFile with
\* fmt.Errorf("reading job file: %w", err)
NoError == [cause |-> "", wrapped |-> FALSE]
GetJobError(job) ==
    IF job.present THEN NoError ELSE [cause |-> "ENOENT", wrapped |-> TRUE]

\* os.IsNotExist: looks at the error it is handed, or at the error inside a
\* *PathError, *LinkError or *SyscallError; it does not unwrap a %w wrapper
osIsNotExist(err) == err.cause = "ENOENT" /\ ~err.wrapped

\* CleanupOrphanedLocks: every lock file whose GetJob error satisfies os.IsNotExist is
\* removed
CleanupOrphanedLocks ==
    /\ now <= MaxCalls
    /\ locks' = locks \ { j \in locks : osIsNotExist(GetJobError(jobs[j])) }
    /\ Returned("CleanupOrphanedLocks", 0, FALSE, "ok")
    /\ now' = now + 1
    /\ UNCHANGED <<jobs, usedIds, insts, started>>
    /\ UNCHANGED <<tierVars, pipeVars, writeVars, runVars, loadVars, monVars, videoVars, raceVars, stateVars, procVars, retainVars, configVars, discVars, scaleVars>>

\* runBackupJob: GetJob, and return when there is no such job
RunGetJob(i) ==
    /\ insts[i].pc = "get"
    /\ insts' = [insts EXCEPT ![i].pc = IF jobs[insts[i].job].present THEN "run" ELSE "done"]
    /\ UNCHANGED <<jobs, locks, usedIds, call, started, now>>
    /\ UNCHANGED <<tierVars, pipeVars, writeVars, runVars, loadVars, monVars, videoVars, raceVars, stateVars, procVars, retainVars, configVars, discVars, scaleVars>>

\* the progress callback of the pipeline run
RunProgress(i) ==
    /\ insts[i].pc = "run"
    /\ insts[i].progress < MaxProgress
    /\ \E io \in {"ok", "savefail"} :
         UpdateJobProgress(insts[i].job, insts[i].progress + 1, io)
    /\ insts' = [insts EXCEPT ![i].progress = @ + 1]
    /\ UNCHANGED <<locks, usedIds, call, started, now>>
    /\ UNCHANGED <<tierVars, pipeVars, writeVars, runVars, loadVars, monVars, videoVars, raceVars, stateVars, procVars, retainVars, configVars, discVars, scaleVars>>

\* what ProcessDirectory can hand back to runBackupJob: its status and whether it
\* carries error entries (its error return is always nil once discovery is over)
PipelineOutcomes ==
    { [Status |-> FinalStatus([k \in 1..f |-> k], n), hasErrors |-> f > 0] :
        n \in 0..(MaxInitFiles + 1), f \in 0..(MaxInitFiles + 1) }

\* ProcessDirectory has returned: CompleteJob with success = (status is "completed")
RunComplete(i) ==
    /\ insts[i].pc = "run"
    /\ \E out \in PipelineOutcomes, io \in {"ok", "savefail"} :
         CompleteJob(insts[i].job, out.Status = "completed",
                     IF out.hasErrors THEN "errors" ELSE "", io)
    /\ insts' = [insts EXCEPT ![i].pc = "done"]
    /\ UNCHANGED <<usedIds, started, now>>
    /\ UNCHANGED <<tierVars, pipeVars, writeVars, runVars, loadVars, monVars, videoVars, raceVars, stateVars, procVars, retainVars, configVars, discVars, scaleVars>>

JobInit ==
    /\ JobStart
    /\ WriteStart
    /\ RunStart
    /\ LoadStart({NoConfigFile})
    /\ MonitorStart({0})
    /\ PipeStart({<<>>})
    /\ TierStart({CHOOSE c \in Configs : Validate(c)})
    /\ VideoStart({BothTools})
    /\ RaceStart
    /\ StateStart({0})
    /\ ProcStart
    /\ RetentionStart({NoJobFiles})
    /\ ConfigStart
    /\ DiscoveryStart({{}})
    /\ ScaleStart

JobNext ==
    \/ HandleCreateJob
    \/ \E j \in JobIds : HandleStartJob(j)
    \/ \E j \in JobIds : HandleStopJob(j)
    \/ \E j \in JobIds : HandleDeleteJob(j)
    \/ CleanupOrphanedLocks
    \/ \E i \in 1..Len(insts) : RunGetJob(i)
    \/ \E i \in 1..Len(insts) : RunProgress(i)
    \/ \E i \in 1..Len(insts) : RunComplete(i)

SpecJobs == JobInit /\ [][JobNext]_vars


(***************************************************************************)
(* Job Store claims                                                        *)
(***************************************************************************)
StartJobStep(j) ==
    call'.seq = call.seq + 1 /\ call'.op = "StartJob" /\ call'.job = j

CancelJobStep(j) ==
    call'.seq = call.seq + 1 /\ call'.op = "CancelJob" /\ call'.job = j

InstancesOf(j) == Cardinality({ i \in 1..Len(insts) : insts[i].job = j })

\* C5: Lifecycle guard.  A StartJob call on a pending job whose writes go through
\* returns nil, leaves the job running with its lock, and launches one
\* runBackupJob.  A StartJob call on a job that a StartJob call has already started
\* returns an error, changes neither a job record nor a lock, and launches no
\* runBackupJob; when it follows the successful call directly, the job's lock is
\* there and exactly one runBackupJob of the job has been launched.
C5_LifecycleGuard ==
    [][\A j \in JobIds : StartJobStep(j) =>
          /\ (jobs[j].present /\ jobs[j].Status = "pending" /\ call'.io = "ok") =>
                /\ ~call'.err
                /\ jobs'[j].Status = "running"
                /\ locks' = locks \cup {j}
                /\ insts' = Append(insts, NewInst(j))
          /\ (j \in started) =>
                /\ call'.err
                /\ jobs' = jobs
                /\ locks' = locks
                /\ insts' = insts
                /\ InstancesOf(j) = 1
          /\ (call.op = "StartJob" /\ call.job = j /\ ~call.err) =>
                /\ call'.err
                /\ j \in locks'
                /\ InstancesOf(j)' = 1
      ]_vars

\* the second of two StartJob calls made one after the other on a job has been
\* rejected: the job runs since the call before, holds its lock, and has one run
C5_Witness ==
    /\ call.op = "StartJob" /\ call.err
    /\ jobs[call.job].present
    /\ jobs[call.job].Status = "running"
    /\ jobs[call.job].StartedAt + 2 = now
    /\ call.job \in locks
    /\ InstancesOf(call.job) = 1

\* C6: Lifecycle violations mutate nothing.  StartJob on a job whose status is not
\* pending, and CancelJob on a job whose status is not running, return an error
\* and leave every job record and the set of lock files as they were.
C6_ViolationsMutateNothing ==
    [][\A j \in JobIds :
          /\ (StartJobStep(j) /\ jobs[j].present /\ jobs[j].Status # "pending") =>
                (call'.err /\ jobs' = jobs /\ locks' = locks)
          /\ (CancelJobStep(j) /\ jobs[j].present /\ jobs[j].Status # "running") =>
                (call'.err /\ jobs' = jobs /\ locks' = locks)
      ]_vars

\* a CancelJob call has been rejected on a job that is not running and whose lock
\* file exists (its StartJob wrote the lock and then failed to save the record)
C6_Witness ==
    /\ call.op = "CancelJob" /\ call.err /\ call.io = "ok"
    /\ jobs[call.job].present
    /\ jobs[call.job].Status = "pending"
    /\ call.job \in locks

\* a StartJob call has been rejected on a job that has completed
C6_WitnessStart ==
    /\ call.op = "StartJob" /\ call.err /\ call.io = "ok"
    /\ jobs[call.job].present
    /\ jobs[call.job].Status \in {"completed", "failed", "canceled"}

\* C20: when CleanupOrphanedLocks returns, the locks that remain are exactly the locks
\* there were before whose job record exists.
C20_OrphanLockCleanup ==
    [][(call'.seq = call.seq + 1 /\ call'.op = "CleanupOrphanedLocks") =>
          locks' = { j \in locks : jobs[j].present }]_vars

\* C30: between two Job Store calls a job has its lock file exactly when its record
\* exists with status running.
C30_LockStatusAgree ==
    \A j \in JobIds :
        j \in locks <=> (jobs[j].present /\ jobs[j].Status = "running")

(***************************************************************************)
(* The save of a store: saveStateFile, saveJob and FileTracker.save.       *)
(* Each runs under the mutex of its store, so a store has one save call in *)
(* progress at a time; the readers (GetJobState of the handlers' second    *)
(* StateManager, loadJob) take no lock the writer holds.                   *)
(***************************************************************************)
\* os.Rename(src, dst)
Rename(f, src, dst) ==
    IF src = dst THEN f ELSE [f EXCEPT ![dst] = f[src], ![src] = NoFile]

\* the save call is entered and the record marshalled
SaveBegin(s) ==
    /\ saver[s].pc = "idle"
    /\ saved < MaxSaves
    /\ saved' = saved + 1
    /\ saver' = [saver EXCEPT ![s] = [pc |-> "open", rec |-> saved + 1]]
    /\ UNCHANGED <<files, seen>>
    /\ UNCHANGED <<tierVars, pipeVars, jobVars, runVars, loadVars, monVars, videoVars, raceVars, stateVars, procVars, retainVars, configVars, discVars, scaleVars>>

\* os.WriteFile(tempFile, ...) opens the file, creating or truncating it
SaveOpen(s) ==
    /\ saver[s].pc = "open"
    /\ files' = [files EXCEPT ![tempFile(s)] = FileOf(saver[s].rec, 0)]
    /\ saver' = [saver EXCEPT ![s].pc = "write"]
    /\ UNCHANGED <<saved, seen>>
    /\ UNCHANGED <<tierVars, pipeVars, jobVars, runVars, loadVars, monVars, videoVars, raceVars, stateVars, procVars, retainVars, configVars, discVars, scaleVars>>

\* os.WriteFile writes one more chunk; after the last one it returns nil
SaveWrite(s) ==
    /\ saver[s].pc = "write"
    /\ LET f == files[tempFile(s)]
       IN  /\ files' = [files EXCEPT ![tempFile(s)] = FileOf(saver[s].rec, f.len + 1)]
           /\ saver' = [saver EXCEPT ![s].pc =
                            IF f.len + 1 = MaxChunks THEN "rename" ELSE "write"]
    /\ UNCHANGED <<saved, seen>>
    /\ UNCHANGED <<tierVars, pipeVars, jobVars, runVars, loadVars, monVars, videoVars, raceVars, stateVars, procVars, retainVars, configVars, discVars, scaleVars>>

\* os.Rename(tempFile, filePath); when it fails the temporary file is removed
SaveRename(s) ==
    /\ saver[s].pc = "rename"
    /\ \E ok \in BOOLEAN :
         files' = IF ok THEN Rename(files, tempFile(s), targetFile(s))
                        ELSE [files EXCEPT ![tempFile(s)] = NoFile]
    /\ saver' = [saver EXCEPT ![s] = IdleSaver]
    /\ UNCHANGED <<saved, seen>>
    /\ UNCHANGED <<tierVars, pipeVars, jobVars, runVars, loadVars, monVars, videoVars, raceVars, stateVars, procVars, retainVars, configVars, discVars, scaleVars>>

\* the save stops where it is: os.WriteFile returns an error and the save returns
\* it, or the process dies; no file is touched
SaveInterrupt(s) ==
    /\ saver[s].pc # "idle"
    /\ saver' = [saver EXCEPT ![s] = IdleSaver]
    /\ UNCHANGED <<files, saved, seen>>
    /\ UNCHANGED <<tierVars, pipeVars, jobVars, runVars, loadVars, monVars, videoVars, raceVars, stateVars, procVars, retainVars, configVars, discVars, scaleVars>>

\* os.ReadFile(filePath) by a reader of the store
ReadTarget(s) ==
    /\ seen' = [store |-> s, content |-> files[targetFile(s)],
                pc |-> saver[s].pc, rec |-> saver[s].rec]
    /\ UNCHANGED <<files, saver, saved>>
    /\ UNCHANGED <<tierVars, pipeVars, jobVars, runVars, loadVars, monVars, videoVars, raceVars, stateVars, procVars, retainVars, configVars, discVars, scaleVars>>

WriteInit ==
    /\ WriteStart
    /\ RunStart
    /\ LoadStart({NoConfigFile})
    /\ MonitorStart({0})
    /\ JobStart
    /\ PipeStart({<<>>})
    /\ TierStart({CHOOSE c \in Configs : Validate(c)})
    /\ VideoStart({BothTools})
    /\ RaceStart
    /\ StateStart({0})
    /\ ProcStart
    /\ RetentionStart({NoJobFiles})
    /\ ConfigStart
    /\ DiscoveryStart({{}})
    /\ ScaleStart

WriteNext ==
    \/ \E s \in Stores : SaveBegin(s)
    \/ \E s \in Stores : SaveOpen(s)
    \/ \E s \in Stores : SaveWrite(s)
    \/ \E s \in Stores : SaveRename(s)
    \/ \E s \in Stores : SaveInterrupt(s)
    \/ \E s \in Stores : ReadTarget(s)

SpecWrite == WriteInit /\ [][WriteNext]_vars

\* C10: Atomic durable writes.  The target file of a store is absent or holds a
\* complete record; it changes only at the rename of a save, to the complete new
\* record, so a save that stops before its rename leaves the target with the
\* content it had; what a reader gets is no file or a complete record, and while a
\* save is in progress it is a record older than the one being saved.
C10_AtomicWrites ==
    /\ [](\A s \in Stores :
            /\ (~files[targetFile(s)].exists \/ Complete(files[targetFile(s)]))
            /\ (~seen.content.exists \/ Complete(seen.content))
            /\ (seen.pc # "idle" => seen.content.rec < seen.rec))
    /\ [][\A s \in Stores :
            /\ (files'[targetFile(s)] # files[targetFile(s)]) =>
                  /\ saver[s].pc = "rename"
                  /\ files'[targetFile(s)] = FileOf(saver[s].rec, MaxChunks)
            /\ (saver[s].pc \in {"open", "write"} /\ saver'[s].pc = "idle") =>
                  files'[targetFile(s)] = files[targetFile(s)]
         ]_vars

\* a save of a later record was interrupted in the middle of its write, a reader
\* got the complete earlier record during that write, and the target still holds it
C10_Witness ==
    \E s \in Stores :
        /\ saver[s].pc = "idle"
        /\ files[tempFile(s)].exists
        /\ files[tempFile(s)].len > 0
        /\ files[tempFile(s)].len < MaxChunks
        /\ Complete(files[targetFile(s)])
        /\ files[targetFile(s)].rec < files[tempFile(s)].rec
        /\ seen.store = s
        /\ seen.pc = "write"
        /\ seen.rec = files[tempFile(s)].rec
        /\ seen.content = files[targetFile(s)]


(***************************************************************************)
(* LoadConfig.  The file holds any tier list: the fields of a tier are     *)
(* drawn so that every test of Validate has a tier that fails it, and so   *)
(* that lists with equal names and with non-increasing thresholds occur.   *)
(***************************************************************************)
GoodLoadTiers ==
    { [Name |-> n, AgeThresholdDays |-> th, PhotoQuality |-> 80, VideoCRF |-> 20,
       MetadataLevel |-> "full"] : n \in {"T1", "T2"}, th \in Thresholds }

BadLoadTiers ==
    LET t == [Name |-> "T1", AgeThresholdDays |-> 1, PhotoQuality |-> 80, VideoCRF |-> 20,
              MetadataLevel |-> "full"]
    IN  { [t EXCEPT !.Name = ""],
          [t EXCEPT !.PhotoQuality = 0],
          [t EXCEPT !.PhotoQuality = 101],
          [t EXCEPT !.VideoCRF = -1],
          [t EXCEPT !.VideoCRF = MaxCRF + 1],
          [t EXCEPT !.MetadataLevel = "everything"] }

LoadTiers == GoodLoadTiers \cup BadLoadTiers

ConfigFiles ==
    {NoConfigFile} \cup
    { [exists |-> TRUE, QualityTiers |-> ts] :
        ts \in UNION { [1..n -> LoadTiers] : n \in 0..MaxTiers } }

\* LoadConfig: the defaults when there is no file, else the parsed file if Validate
\* accepts it
LoadConfig ==
    /\ ~loadOut.called
    /\ IF ~loadFile.exists
       THEN \E saved_ \in BOOLEAN :
              loadOut' = [called |-> TRUE, err |-> ~saved_,
                          QualityTiers |-> IF saved_ THEN DefaultTiers ELSE <<>>]
       ELSE IF Validate(loadFile)
       THEN loadOut' = [called |-> TRUE, err |-> FALSE,
                        QualityTiers |-> loadFile.QualityTiers]
       ELSE loadOut' = [called |-> TRUE, err |-> TRUE, QualityTiers |-> <<>>]
    /\ UNCHANGED loadFile
    /\ UNCHANGED <<tierVars, pipeVars, jobVars, writeVars, runVars, monVars, videoVars, raceVars, stateVars, procVars, retainVars, configVars, discVars, scaleVars>>

LoadInit ==
    /\ LoadStart(ConfigFiles)
    /\ TierStart({CHOOSE c \in Configs : Validate(c)})
    /\ PipeStart({<<>>})
    /\ JobStart
    /\ WriteStart
    /\ RunStart
    /\ MonitorStart({0})
    /\ VideoStart({BothTools})
    /\ RaceStart
    /\ StateStart({0})
    /\ ProcStart
    /\ RetentionStart({NoJobFiles})
    /\ ConfigStart
    /\ DiscoveryStart({{}})
    /\ ScaleStart

LoadNext == LoadConfig

SpecLoad == LoadInit /\ [][LoadNext]_vars

DistinctNames(tiers) ==
    \A i, k \in 1..Len(tiers) : tiers[i].Name = tiers[k].Name => i = k

\* C15: a configuration LoadConfig returns without error has a catalog that is not
\* empty, whose thresholds strictly increase, whose photo qualities are in 1..100 and
\* video compression levels in 0..51, whose metadata levels are known and whose tier
\* names are distinct.
C15_LoadValidation ==
    (loadOut.called /\ ~loadOut.err) =>
        LET tiers == loadOut.QualityTiers
        IN  /\ Len(tiers) > 0
            /\ StrictlyIncreasing(tiers)
            /\ \A i \in 1..Len(tiers) :
                  /\ tiers[i].PhotoQuality \in 1..100
                  /\ tiers[i].VideoCRF \in 0..MaxCRF
                  /\ tiers[i].MetadataLevel \in MetadataLevels
            /\ DistinctNames(tiers)


(***************************************************************************)
(* Space Monitor                                                           *)
(***************************************************************************)
DiskSizes == {0, 3, 7}

Tick ==
    /\ smClock < MaxClock
    /\ smClock' = smClock + 1
    /\ UNCHANGED <<disk, spaceMonitor, lastScan, usageOut>>
    /\ UNCHANGED <<tierVars, pipeVars, jobVars, writeVars, runVars, loadVars, videoVars, raceVars, stateVars, procVars, retainVars, configVars, discVars, scaleVars>>

\* files are written under dataPath or removed from it
DiskChange ==
    /\ \E size \in DiskSizes \ {disk} : disk' = size
    /\ UNCHANGED <<smClock, spaceMonitor, lastScan, usageOut>>
    /\ UNCHANGED <<tierVars, pipeVars, jobVars, writeVars, runVars, loadVars, videoVars, raceVars, stateVars, procVars, retainVars, configVars, discVars, scaleVars>>

\* GetCurrentUsage: usedSpace while lastCheck is less than 5 minutes old, else the sum
\* filepath.Walk finds, or 0 and an error when the walk fails
GetCurrentUsage ==
    /\ IF smClock - spaceMonitor.lastCheck < CacheMinutes
       THEN /\ usageOut' = [called |-> TRUE, err |-> FALSE,
                            value |-> spaceMonitor.usedSpace, at |-> smClock]
            /\ UNCHANGED <<spaceMonitor, lastScan>>
       ELSE \E walked \in BOOLEAN :
              IF walked
              THEN /\ spaceMonitor' = [usedSpace |-> disk, lastCheck |-> smClock]
                   /\ lastScan' = [done |-> TRUE, at |-> smClock, size |-> disk]
                   /\ usageOut' = [called |-> TRUE, err |-> FALSE,
                                   value |-> disk, at |-> smClock]
              ELSE /\ usageOut' = [called |-> TRUE, err |-> TRUE, value |-> 0,
                                   at |-> smClock]
                   /\ UNCHANGED <<spaceMonitor, lastScan>>
    /\ UNCHANGED <<smClock, disk>>
    /\ UNCHANGED <<tierVars, pipeVars, jobVars, writeVars, runVars, loadVars, videoVars, raceVars, stateVars, procVars, retainVars, configVars, discVars, scaleVars>>

MonitorInit ==
    /\ MonitorStart(DiskSizes)
    /\ TierStart({CHOOSE c \in Configs : Validate(c)})
    /\ PipeStart({<<>>})
    /\ JobStart
    /\ WriteStart
    /\ RunStart
    /\ LoadStart({NoConfigFile})
    /\ VideoStart({BothTools})
    /\ RaceStart
    /\ StateStart({0})
    /\ ProcStart
    /\ RetentionStart({NoJobFiles})
    /\ ConfigStart
    /\ DiscoveryStart({{}})
    /\ ScaleStart

MonitorNext == Tick \/ DiskChange \/ GetCurrentUsage

SpecMonitor == MonitorInit /\ [][MonitorNext]_vars

\* C19: the value a GetCurrentUsage call returns is the sum a walk of the monitored
\* root found, and that walk was made at most 5 minutes before the call; no value is
\* returned before a walk has been made.
C19_MeasuredUsage ==
    (usageOut.called /\ ~usageOut.err) =>
        /\ lastScan.done
        /\ usageOut.value = lastScan.size
        /\ usageOut.at - lastScan.at <= CacheMinutes


(***************************************************************************)
(* The State Store operations ProcessDirectory calls.  Each reads          *)
(* progress-<id>.json with GetJobState; UpdateJobProgress creates the      *)
(* record when there is none, the other three return "job state not found" *)
(* and write nothing.  The saves are taken to succeed.                     *)
(***************************************************************************)
AddPhaseStats(js, j, phase) ==
    IF js[j].present THEN [js EXCEPT ![j].PhaseStats = @ \cup {phase}] ELSE js

UpdateCompressionStats(js, j) ==
    IF js[j].present THEN [js EXCEPT ![j].CompressedFiles = @ + 1] ELSE js

IncrementErrorCount(js, j) ==
    IF js[j].present THEN [js EXCEPT ![j].ErrorCount = @ + 1] ELSE js

\* StateManager.UpdateJobProgress
StateUpdateJobProgress(js, j, processed) ==
    [js EXCEPT ![j] = [(IF @.present THEN @ ELSE [NoJobState EXCEPT !.present = TRUE])
                          EXCEPT !.ProcessedFiles = processed]]

NotFound(js, j, op) == IF js[j].present THEN {} ELSE {[job |-> j, op |-> op]}

\* discoverFiles over a root that can or cannot be read, holding n media files: the
\* callback of filepath.Walk returns nil for every error it is handed, the one for the
\* root included, so Walk returns nil
discoverRoot(readable, n) == [files |-> IF readable THEN n ELSE 0, err |-> FALSE]

(***************************************************************************)
(* runBackupJob in detail: ProcessDirectory step by step.  The workers of  *)
(* processFiles are counted, not named: inFlight of them hold a file.      *)
(***************************************************************************)
\* ProcessDirectory up to the start of the workers
RunDiscover(i) ==
    LET j == insts[i].job
    IN  /\ insts[i].pc = "run"
        /\ pd[i].phase = "idle"
        /\ \E readable \in BOOLEAN, n \in 0..MaxRunFiles, c \in 1..MaxWorkers :
             LET found == discoverRoot(readable, n)
             IN  /\ (~readable => n = 0)
                 /\ pd' = [pd EXCEPT ![i] =
                             IF found.err
                             THEN [IdlePD EXCEPT !.phase = "finishing",
                                                 !.rootReadable = readable,
                                                 !.Status = "failed", !.err = TRUE]
                             ELSE [IdlePD EXCEPT !.phase = "processing",
                                                 !.rootReadable = readable,
                                                 !.TotalFiles = found.files,
                                                 !.queued = found.files,
                                                 !.concurrency = c]]
                 /\ jobStates' =
                      IF found.err THEN AddPhaseStats(jobStates, j, "discovery")
                      ELSE AddPhaseStats(AddPhaseStats(jobStates, j, "discovery"),
                                         j, "processing")
        /\ smErrs' = smErrs \cup NotFound(jobStates, j, "AddPhaseStats")
        /\ UpdateJobProgress(j, 0, "ok")
        /\ UNCHANGED <<locks, usedIds, insts, call, started, now>>
        /\ UNCHANGED <<tierVars, pipeVars, writeVars, loadVars, monVars, videoVars, raceVars, stateVars, procVars, retainVars, configVars, discVars, scaleVars>>

\* a worker takes the next file from the channel, counts it and calls the callback
RunDequeue(i) ==
    LET j == insts[i].job
    IN  /\ pd[i].phase = "processing"
        /\ pd[i].queued > 0
        /\ pd[i].inFlight < pd[i].concurrency
        /\ pd' = [pd EXCEPT ![i].queued = @ - 1,
                            ![i].inFlight = @ + 1,
                            ![i].processedCount = @ + 1,
                            ![i].afterCancel =
                                IF jobs[j].present /\ jobs[j].Status = "canceled"
                                THEN @ + 1 ELSE @]
        /\ UpdateJobProgress(j, pd[i].processedCount + 1, "ok")
        /\ UNCHANGED <<jobStates, smErrs>>
        /\ UNCHANGED <<locks, usedIds, insts, call, started, now>>
        /\ UNCHANGED <<tierVars, pipeVars, writeVars, loadVars, monVars, videoVars, raceVars, stateVars, procVars, retainVars, configVars, discVars, scaleVars>>

\* the worker is done with its file: skipped as already processed, or transformed with
\* or without error, then the State Store calls of the loop body
RunTransform(i) ==
    LET j == insts[i].job
    IN  /\ pd[i].phase = "processing"
        /\ pd[i].inFlight > 0
        /\ \E outcome \in {"ok", "failed", "skipped"} :
             /\ pd' = [pd EXCEPT ![i].inFlight = @ - 1,
                                 ![i].errors = IF outcome = "failed" THEN @ + 1 ELSE @]
             /\ jobStates' =
                  CASE outcome = "skipped" -> jobStates
                    [] outcome = "failed" ->
                         StateUpdateJobProgress(IncrementErrorCount(jobStates, j),
                                                j, pd[i].processedCount)
                    [] outcome = "ok" ->
                         StateUpdateJobProgress(UpdateCompressionStats(jobStates, j),
                                                j, pd[i].processedCount)
             /\ smErrs' =
                  CASE outcome = "skipped" -> smErrs
                    [] outcome = "failed" ->
                         smErrs \cup NotFound(jobStates, j, "IncrementErrorCount")
                    [] outcome = "ok" ->
                         smErrs \cup NotFound(jobStates, j, "UpdateCompressionStats")
        /\ UNCHANGED jobVars
        /\ UNCHANGED <<tierVars, pipeVars, writeVars, loadVars, monVars, videoVars, raceVars, stateVars, procVars, retainVars, configVars, discVars, scaleVars>>

\* the workers have returned: the final status, and runBackupJob calls CompleteJob
RunFinish(i) ==
    LET j == insts[i].job
        status == IF pd[i].phase = "finishing" THEN pd[i].Status
                  ELSE FinalStatus([k \in 1..pd[i].errors |-> k], pd[i].processedCount)
        success == ~pd[i].err /\ status = "completed"
    IN  /\ insts[i].pc = "run"
        /\ \/ pd[i].phase = "finishing"
           \/ pd[i].phase = "processing" /\ pd[i].queued = 0 /\ pd[i].inFlight = 0
        /\ pd' = [pd EXCEPT ![i].phase = "done", ![i].Status = status,
                            ![i].success = success]
        /\ \E io \in {"ok", "savefail"} :
             CompleteJob(j, success, IF pd[i].errors > 0 \/ pd[i].err THEN "errors" ELSE "", io)
        /\ insts' = [insts EXCEPT ![i].pc = "done"]
        /\ UNCHANGED <<jobStates, smErrs>>
        /\ UNCHANGED <<usedIds, started, now>>
        /\ UNCHANGED <<tierVars, pipeVars, writeVars, loadVars, monVars, videoVars, raceVars, stateVars, procVars, retainVars, configVars, discVars, scaleVars>>

RunInit ==
    /\ RunStart
    /\ JobStart
    /\ TierStart({CHOOSE c \in Configs : Validate(c)})
    /\ PipeStart({<<>>})
    /\ WriteStart
    /\ LoadStart({NoConfigFile})
    /\ MonitorStart({0})
    /\ VideoStart({BothTools})
    /\ RaceStart
    /\ StateStart({0})
    /\ ProcStart
    /\ RetentionStart({NoJobFiles})
    /\ ConfigStart
    /\ DiscoveryStart({{}})
    /\ ScaleStart

RunNext ==
    \/ HandleCreateJob
    \/ \E j \in JobIds : HandleStartJob(j)
    \/ \E j \in JobIds : HandleStopJob(j)
    \/ \E i \in 1..Len(insts) : RunGetJob(i)
    \/ \E i \in 1..Len(insts) : RunDiscover(i)
    \/ \E i \in 1..Len(insts) : RunDequeue(i)
    \/ \E i \in 1..Len(insts) : RunTransform(i)
    \/ \E i \in 1..Len(insts) : RunFinish(i)

SpecRun == RunInit /\ [][RunNext]_vars

\* C11: while a started job is running it has a JobState record, and no State Store
\* call of its run returns "job state not found".
C11_JobStateFromStart ==
    /\ \A j \in JobIds :
          (j \in started /\ jobs[j].present /\ jobs[j].Status = "running")
              => jobStates[j].present
    /\ smErrs = {}

\* C12: a job whose persisted status is completed, failed or canceled has no JobState
\* record.
C12_JobStateCleared ==
    \A j \in JobIds :
        (jobs[j].present /\ jobs[j].Status \in {"completed", "failed", "canceled"})
            => ~jobStates[j].present

\* C13: no run takes a file from its work channel while the persisted status of its job
\* is canceled.
C13_CooperativeCancel ==
    \A i \in 1..Len(insts) : pd[i].afterCancel = 0

\* C14: a run whose source root could not be read ends with status failed and an error,
\* and hands CompleteJob a failure.
C14_DiscoveryErrors ==
    \A i \in 1..Len(insts) :
        (pd[i].phase = "done" /\ ~pd[i].rootReadable)
            => (pd[i].Status = "failed" /\ pd[i].err /\ ~pd[i].success)

\* C27: a run that ended with pipeline status completed_with_errors does not leave its
\* job with the persisted status failed.
C27_PartialFailureNotFailed ==
    \A i \in 1..Len(insts) :
        (pd[i].phase = "done" /\ pd[i].Status = "completed_with_errors"
            /\ jobs[insts[i].job].present)
            => jobs[insts[i].job].Status # "failed"

TerminalStatuses == {"completed", "failed", "canceled"}

\* C29: a step never changes a persisted status that is completed, failed or canceled.
C29_TerminalAbsorbing ==
    [][\A j \in JobIds :
          (jobs[j].present /\ jobs[j].Status \in TerminalStatuses)
              => (jobs'[j].present /\ jobs'[j].Status = jobs[j].Status)]_vars

\* C31: when runBackupJob returns, and no write of its last step failed, its job has a
\* terminal persisted status and no lock.
C31_StartedJobEnds ==
    [][\A i \in 1..Len(insts) :
          (insts[i].pc # "done" /\ insts'[i].pc = "done"
              /\ (call' = call \/ call'.io = "ok"))
              => /\ insts[i].job \notin locks'
                 /\ jobs'[insts[i].job].present
                 /\ jobs'[insts[i].job].Status \in TerminalStatuses]_vars

(***************************************************************************)
(* VideoProcessor.ProcessVideo                                             *)
(***************************************************************************)
\* the video streams met: height in lines, frames per second, codec name
Videos == [Height : {480, 1080, 2160}, FrameRate : {24, 30, 60}, VideoCodec : {"h264", "hevc"}]

\* the limits a tier sets; GetDefaultConfig has 1080/60, 1080/30 and 720/30
VideoLimits == { <<1080, 60>>, <<1080, 30>>, <<720, 30>> }

\* extractVideoMetadata: the stream's values when ffprobe is there and runs, else the
\* zero values, and ProcessVideo goes on with them
extractVideoMetadata(video, probed) == IF probed THEN video ELSE NoVideoMetadata

\* needsTranscoding: three tests that return true, then `return true`
needsTranscoding(metadata, maxHeight, maxFPS) ==
    IF metadata.Height > maxHeight THEN TRUE
    ELSE IF metadata.FrameRate > maxFPS THEN TRUE
    ELSE IF metadata.VideoCodec # "h264" /\ metadata.VideoCodec # "x264" THEN TRUE
    ELSE TRUE

\* ProcessVideo(sourcePath, destPath, tier): copyFile when no transcoding is needed or
\* there is no ffmpeg, else transcodeVideo; either can fail
ProcessVideo ==
    /\ \E video \in Videos, lim \in VideoLimits, ran \in BOOLEAN, failed \in BOOLEAN :
         LET metadata == extractVideoMetadata(video, vp.ffprobe /\ ran)
             needs    == needsTranscoding(metadata, lim[1], lim[2])
         IN  videoOut' = [called |-> TRUE, video |-> video, metadata |-> metadata,
                          VideoMaxHeight |-> lim[1], VideoMaxFPS |-> lim[2],
                          did |-> IF ~needs \/ ~vp.ffmpeg THEN "copy" ELSE "transcode",
                          err |-> failed]
    /\ UNCHANGED vp
    /\ UNCHANGED <<tierVars, pipeVars, jobVars, writeVars, runVars, loadVars, monVars, raceVars, stateVars, procVars, retainVars, configVars, discVars, scaleVars>>

VideoInit ==
    /\ VideoStart(VideoTools)
    /\ TierStart({CHOOSE c \in Configs : Validate(c)})
    /\ PipeStart({<<>>})
    /\ JobStart
    /\ WriteStart
    /\ RunStart
    /\ LoadStart({NoConfigFile})
    /\ MonitorStart({0})
    /\ RaceStart
    /\ StateStart({0})
    /\ ProcStart
    /\ RetentionStart({NoJobFiles})
    /\ ConfigStart
    /\ DiscoveryStart({{}})
    /\ ScaleStart

VideoNext == ProcessVideo

SpecVideo == VideoInit /\ [][VideoNext]_vars

\* C21: a video whose height is <= the tier's VideoMaxHeight, whose frame rate is <= the
\* tier's VideoMaxFPS and whose codec is h264 is copied, not transcoded; the encoder is
\* run only for a video that exceeds one of the two limits or has another codec.
C21_VerbatimCopy ==
    videoOut.called =>
        LET within == /\ videoOut.video.Height <= videoOut.VideoMaxHeight
                      /\ videoOut.video.FrameRate <= videoOut.VideoMaxFPS
                      /\ videoOut.video.VideoCodec = "h264"
        IN  /\ within => videoOut.did = "copy"
            /\ videoOut.did = "transcode" => ~within

(***************************************************************************)
(* StartJob step by step.  JobManager takes no lock in StartJob: between   *)
(* GetJob, the write of the lock file and UpdateJob, other requests run.   *)
(***************************************************************************)
\* os.WriteFile opening the lock file with O_CREATE|O_EXCL: an existing file is an error
WriteLockFileExclusive(lockset, j) == [ok |-> j \notin lockset, locks |-> lockset \cup {j}]

\* os.WriteFile(lockFile, ...): O_WRONLY|O_CREATE|O_TRUNC, an existing file is rewritten
WriteLockFile(lockset, j) == [ok |-> TRUE, locks |-> lockset \cup {j}]

\* HandleStartJob enters StartJob: GetJob, then the test of the status it read
StartJobGet(c, j) ==
    /\ now <= MaxCalls
    /\ starters[c].pc = "idle"
    /\ IF ~jobs[j].present \/ jobs[j].Status # "pending"
       THEN /\ starters' = [starters EXCEPT ![c] = [pc |-> "done", job |-> j, rec |-> jobs[j],
                                                    err |-> TRUE, io |-> "ok"]]
            /\ Returned("StartJob", j, TRUE, "ok")
       ELSE /\ starters' = [starters EXCEPT ![c] = [pc |-> "lock", job |-> j, rec |-> jobs[j],
                                                    err |-> FALSE, io |-> "ok"]]
            /\ call' = call
    /\ now' = now + 1
    /\ UNCHANGED <<jobs, locks, usedIds, insts, started>>
    /\ UNCHANGED <<tierVars, pipeVars, writeVars, runVars, loadVars, monVars, videoVars, stateVars, procVars, retainVars, configVars, discVars, scaleVars>>

\* the lock file is written
StartJobLock(c) ==
    LET j == starters[c].job
    IN  /\ starters[c].pc = "lock"
        /\ \E io \in {"ok", "lockfail"} :
             LET w == WriteLockFile(locks, j)
             IN  IF io = "lockfail" \/ ~w.ok
                 THEN /\ starters' = [starters EXCEPT ![c].pc = "done", ![c].err = TRUE,
                                                      ![c].io = io]
                      /\ locks' = locks
                      /\ Returned("StartJob", j, TRUE, io)
                 ELSE /\ starters' = [starters EXCEPT ![c].pc = "save"]
                      /\ locks' = w.locks
                      /\ call' = call
        /\ UNCHANGED <<jobs, usedIds, insts, started, now>>
        /\ UNCHANGED <<tierVars, pipeVars, writeVars, runVars, loadVars, monVars, videoVars, stateVars, procVars, retainVars, configVars, discVars, scaleVars>>

\* UpdateJob saves the record GetJob returned, with status running; StartJob returns and
\* HandleStartJob launches runBackupJob when it returned nil
StartJobSave(c) ==
    LET j == starters[c].job
    IN  /\ starters[c].pc = "save"
        /\ \E io \in {"ok", "savefail"} :
             IF io = "savefail"
             THEN /\ starters' = [starters EXCEPT ![c].pc = "done", ![c].err = TRUE,
                                                  ![c].io = io]
                  /\ Returned("StartJob", j, TRUE, io)
                  /\ UNCHANGED <<jobs, insts, started>>
             ELSE /\ starters' = [starters EXCEPT ![c].pc = "done"]
                  /\ jobs' = UpdateJob(j, [starters[c].rec EXCEPT !.Status = "running",
                                                                  !.StartedAt = now,
                                                                  !.LastRunAt = now])
                  /\ Returned("StartJob", j, FALSE, io)
                  /\ insts' = Append(insts, NewInst(j))
                  /\ started' = started \cup {j}
        /\ UNCHANGED <<locks, usedIds, now>>
        /\ UNCHANGED <<tierVars, pipeVars, writeVars, runVars, loadVars, monVars, videoVars, stateVars, procVars, retainVars, configVars, discVars, scaleVars>>

StartInit ==
    /\ RaceStart
    /\ JobStart
    /\ TierStart({CHOOSE c \in Configs : Validate(c)})
    /\ PipeStart({<<>>})
    /\ WriteStart
    /\ RunStart
    /\ LoadStart({NoConfigFile})
    /\ MonitorStart({0})
    /\ VideoStart({BothTools})
    /\ StateStart({0})
    /\ ProcStart
    /\ RetentionStart({NoJobFiles})
    /\ ConfigStart
    /\ DiscoveryStart({{}})
    /\ ScaleStart

StartNext ==
    \/ HandleCreateJob
    \/ \E c \in Starters, j \in JobIds : StartJobGet(c, j)
    \/ \E c \in Starters : StartJobLock(c)
    \/ \E c \in Starters : StartJobSave(c)
    \/ \E i \in 1..Len(insts) : RunGetJob(i)

SpecStart == StartInit /\ [][StartNext]_vars

\* the request passed the pending test of StartJob and met no failing write
PassedPending(c) ==
    /\ starters[c].pc # "idle"
    /\ starters[c].rec.present
    /\ starters[c].rec.Status = "pending"
    /\ starters[c].io = "ok"

\* C22: when two start requests for one job have both read status pending and both have
\* returned, neither meeting a failing write, both StartJob calls returned nil and two
\* runBackupJob executions of the job have been launched.
C22_StartRace ==
    \A c1, c2 \in Starters :
        ( /\ c1 # c2
          /\ starters[c1].job = starters[c2].job
          /\ PassedPending(c1) /\ starters[c1].pc = "done"
          /\ PassedPending(c2) /\ starters[c2].pc = "done" )
        => /\ ~starters[c1].err
           /\ ~starters[c2].err
           /\ InstancesOf(starters[c1].job) >= 2

\* two runBackupJob executions of one job are past GetJob at the same time, the job
\* running and its lock written
C22_Witness ==
    \E i1, i2 \in 1..Len(insts) :
        /\ i1 # i2
        /\ insts[i1].job = insts[i2].job
        /\ insts[i1].pc = "run"
        /\ insts[i2].pc = "run"
        /\ jobs[insts[i1].job].Status = "running"
        /\ insts[i1].job \in locks
        /\ \A c \in Starters : starters[c].pc = "done" /\ ~starters[c].err

(***************************************************************************)
(* The State Store calls of the worker loop of processFiles.  GetJobState  *)
(* reads the file under the read lock of the StateManager and returns;     *)
(* SaveJobState writes it under the write lock.  Each mutator is a         *)
(* GetJobState, a change of the copy it got, and a SaveJobState: the lock  *)
(* is not held from the one to the other.                                  *)
(***************************************************************************)
\* result.OriginalSize and result.ProcessedSize of file f
OriginalSize(f) == 2 * f
ProcessedSize(f) == f

\* a worker takes a file from the channel and counts it; the file is skipped as already
\* processed, or transformed with or without error
StateDequeue(w) ==
    /\ ~sq.done
    /\ sw[w].pc = "idle"
    /\ sq.next <= sq.files
    /\ sq' = [sq EXCEPT !.next = @ + 1, !.processedCount = @ + 1]
    /\ \E outcome \in {"skipped", "ok", "failed"} :
         /\ sw' = [sw EXCEPT ![w] =
                     IF outcome = "skipped" THEN IdleStateWorker
                     ELSE [IdleStateWorker EXCEPT
                             !.pc = "get", !.file = sq.next,
                             !.op = IF outcome = "ok" THEN "UpdateCompressionStats"
                                    ELSE "IncrementErrorCount"]]
         /\ ledger' =
              CASE outcome = "skipped" -> ledger
                [] outcome = "ok" ->
                     [ledger EXCEPT !.OriginalBytes = @ + OriginalSize(sq.next),
                                    !.CompressedBytes = @ + ProcessedSize(sq.next)]
                [] outcome = "failed" -> [ledger EXCEPT !.failed = @ + 1]
    /\ UNCHANGED jsFile
    /\ UNCHANGED <<tierVars, pipeVars, jobVars, writeVars, runVars, loadVars, monVars, videoVars, raceVars, procVars, retainVars, configVars, discVars, scaleVars>>

\* GetJobState inside UpdateCompressionStats or IncrementErrorCount: without a record
\* the mutator returns "job state not found" and the worker goes on to UpdateJobProgress
StateGet(w) ==
    /\ sw[w].pc = "get"
    /\ sw' = [sw EXCEPT ![w] =
                IF jsFile.present
                THEN [@ EXCEPT !.pc = "save", !.base = jsFile, !.state = jsFile]
                ELSE [@ EXCEPT !.pc = "progressGet"]]
    /\ UNCHANGED <<jsFile, sq, ledger>>
    /\ UNCHANGED <<tierVars, pipeVars, jobVars, writeVars, runVars, loadVars, monVars, videoVars, raceVars, procVars, retainVars, configVars, discVars, scaleVars>>

\* the change UpdateCompressionStats or IncrementErrorCount makes to the copy it holds
Mutated(worker) ==
    IF worker.op = "UpdateCompressionStats"
    THEN [worker.state EXCEPT !.OriginalBytes = @ + OriginalSize(worker.file),
                              !.CompressedBytes = @ + ProcessedSize(worker.file)]
    ELSE [worker.state EXCEPT !.ErrorCount = @ + 1]

\* SaveJobState at the end of the mutator
StateSave(w) ==
    /\ sw[w].pc = "save"
    /\ jsFile' = Mutated(sw[w])
    /\ ledger' = [ledger EXCEPT !.overwritten = IF jsFile # sw[w].base THEN @ + 1 ELSE @]
    /\ sw' = [sw EXCEPT ![w].pc = "progressGet"]
    /\ UNCHANGED sq
    /\ UNCHANGED <<tierVars, pipeVars, jobVars, writeVars, runVars, loadVars, monVars, videoVars, raceVars, procVars, retainVars, configVars, discVars, scaleVars>>

\* StateManager.UpdateJobProgress(job.ID, processedCount, ...): GetJobState, or a new
\* JobState when there is none; processedCount is read as it is now
StateProgressGet(w) ==
    /\ sw[w].pc = "progressGet"
    /\ sw' = [sw EXCEPT ![w].pc = "progressSave",
                        ![w].base = jsFile,
                        ![w].state = [(IF jsFile.present THEN jsFile ELSE NewJobState)
                                         EXCEPT !.ProcessedFiles = sq.processedCount]]
    /\ UNCHANGED <<jsFile, sq, ledger>>
    /\ UNCHANGED <<tierVars, pipeVars, jobVars, writeVars, runVars, loadVars, monVars, videoVars, raceVars, procVars, retainVars, configVars, discVars, scaleVars>>

\* SaveJobState at the end of UpdateJobProgress; the worker goes back to the channel
StateProgressSave(w) ==
    /\ sw[w].pc = "progressSave"
    /\ jsFile' = sw[w].state
    /\ ledger' = [ledger EXCEPT !.overwritten = IF jsFile # sw[w].base THEN @ + 1 ELSE @]
    /\ sw' = [sw EXCEPT ![w] = IdleStateWorker]
    /\ UNCHANGED sq
    /\ UNCHANGED <<tierVars, pipeVars, jobVars, writeVars, runVars, loadVars, monVars, videoVars, raceVars, procVars, retainVars, configVars, discVars, scaleVars>>

\* the channel is empty and every worker has returned: wg.Wait returns
StateRunEnd ==
    /\ ~sq.done
    /\ sq.next > sq.files
    /\ \A w \in Workers : sw[w].pc = "idle"
    /\ sq' = [sq EXCEPT !.done = TRUE]
    /\ UNCHANGED <<jsFile, sw, ledger>>
    /\ UNCHANGED <<tierVars, pipeVars, jobVars, writeVars, runVars, loadVars, monVars, videoVars, raceVars, procVars, retainVars, configVars, discVars, scaleVars>>

StateInit ==
    /\ StateStart(0..MaxStateFiles)
    /\ JobStart
    /\ TierStart({CHOOSE c \in Configs : Validate(c)})
    /\ PipeStart({<<>>})
    /\ WriteStart
    /\ RunStart
    /\ LoadStart({NoConfigFile})
    /\ MonitorStart({0})
    /\ VideoStart({BothTools})
    /\ RaceStart
    /\ ProcStart
    /\ RetentionStart({NoJobFiles})
    /\ ConfigStart
    /\ DiscoveryStart({{}})
    /\ ScaleStart

StateNext ==
    \/ \E w \in Workers : StateDequeue(w)
    \/ \E w \in Workers : StateGet(w)
    \/ \E w \in Workers : StateSave(w)
    \/ \E w \in Workers : StateProgressGet(w)
    \/ \E w \in Workers : StateProgressSave(w)
    \/ StateRunEnd

SpecState == StateInit /\ [][StateNext]_vars

\* C23: when the run has ended the persisted JobState has OriginalBytes and
\* CompressedBytes equal to the sums of the original and processed sizes of the files
\* transformed without error, and ErrorCount equal to the number of files whose
\* transformation failed; no save of a worker replaced a record other than the one that
\* worker had read.
C23_NoLostUpdates ==
    /\ sq.done =>
          /\ jsFile.OriginalBytes = ledger.OriginalBytes
          /\ jsFile.CompressedBytes = ledger.CompressedBytes
          /\ jsFile.ErrorCount = ledger.failed
    /\ ledger.overwritten = 0

\* C32: from one save of the JobState to the next its ProcessedFiles does not decrease,
\* and it is never above the number of files of the run.
C32_ProgressMonotone ==
    /\ [][jsFile'.ProcessedFiles >= jsFile.ProcessedFiles]_vars
    /\ [](jsFile.ProcessedFiles <= sq.files)

(***************************************************************************)
(* ProcessDirectory, phase by phase, with the progress callbacks and the   *)
(* worker pool of processFiles.  Files are numbered in the order           *)
(* discoverFiles lists them.                                               *)
(***************************************************************************)
\* info.Size() of file f
FileSize(f) == f

\* the value handed to the callback: job.ProgressCallback(progress) copies the struct
Progress(p, phase) ==
    [Phase |-> phase, TotalFiles |-> p.TotalFiles, TotalBytes |-> p.TotalBytes,
     ProcessedFiles |-> p.processedCount]

Called(p, phase) == IF p.hasCallback THEN Append(callbacks, Progress(p, phase)) ELSE callbacks

\* a pool with one goroutine for every file
WorkerCountPerFile(jobMax, configMax, nFiles) == nFiles

\* concurrency := job.MaxConcurrency; if concurrency <= 0 { concurrency = MaxConcurrentJobs }
WorkerCount(jobMax, configMax, nFiles) == IF jobMax <= 0 THEN configMax ELSE jobMax

\* processing starts with the size loop still running
SizingDoneEarly(p) == TRUE

\* the loop over the discovered files that sums their sizes has ended
SizingDone(p) == p.sized = p.TotalFiles

\* a worker that returns at the first file that fails
AfterTransformStop(failed) == IF failed THEN "exited" ELSE "idle"

\* the worker after the body of its loop: back to the channel, whatever the outcome
AfterTransform(failed) == "idle"

\* ProcessDirectory(job) is entered: the discovery callback.  A job carries the pool
\* size CreateJob gave it (2 when none was set) or none (0); MaxConcurrentJobs is at
\* least 1.
ProcBegin ==
    /\ pr.phase = "idle"
    /\ \E jobMax \in 0..MaxWorkers, configMax \in 1..MaxWorkers, cb \in BOOLEAN,
          n \in 0..MaxProcFiles :
         LET p == [IdleProc EXCEPT !.phase = "discovery", !.MaxConcurrency = jobMax,
                                   !.MaxConcurrentJobs = configMax, !.hasCallback = cb,
                                   !.tree = n]
         IN  /\ pr' = p
             /\ callbacks' = Called(p, "discovery")
    /\ UNCHANGED <<pw, dispatch>>
    /\ UNCHANGED <<tierVars, pipeVars, jobVars, writeVars, runVars, loadVars, monVars, videoVars, raceVars, stateVars, retainVars, configVars, discVars, scaleVars>>

\* discoverFiles returns the list; TotalFiles is set
ProcDiscover ==
    /\ pr.phase = "discovery"
    /\ pr' = [pr EXCEPT !.phase = "sizing", !.TotalFiles = pr.tree]
    /\ UNCHANGED <<pw, dispatch, callbacks>>
    /\ UNCHANGED <<tierVars, pipeVars, jobVars, writeVars, runVars, loadVars, monVars, videoVars, raceVars, stateVars, retainVars, configVars, discVars, scaleVars>>

\* one turn of the size loop: os.Stat of the next file, its size added when Stat succeeds
ProcSize ==
    /\ pr.phase = "sizing"
    /\ pr.sized < pr.TotalFiles
    /\ \E ok \in BOOLEAN :
         pr' = [pr EXCEPT !.sized = @ + 1,
                          !.totalSize = IF ok THEN @ + FileSize(pr.sized + 1) ELSE @]
    /\ UNCHANGED <<pw, dispatch, callbacks>>
    /\ UNCHANGED <<tierVars, pipeVars, jobVars, writeVars, runVars, loadVars, monVars, videoVars, raceVars, stateVars, retainVars, configVars, discVars, scaleVars>>

\* progress.TotalBytes is set, the processing callback is made, and processFiles fills
\* and closes the channel and starts its workers
ProcStartProcessing ==
    /\ pr.phase = "sizing"
    /\ SizingDone(pr)
    /\ LET p == [pr EXCEPT !.phase = "processing", !.TotalBytes = pr.totalSize,
                           !.concurrency = WorkerCount(pr.MaxConcurrency,
                                                       pr.MaxConcurrentJobs, pr.TotalFiles)]
       IN  /\ pr' = p
           /\ callbacks' = Called(p, "processing")
           /\ pw' = [w \in 1..p.concurrency |-> [pc |-> "idle", file |-> 0]]
    /\ UNCHANGED dispatch
    /\ UNCHANGED <<tierVars, pipeVars, jobVars, writeVars, runVars, loadVars, monVars, videoVars, raceVars, stateVars, retainVars, configVars, discVars, scaleVars>>

\* a worker receives a file, and under mu counts it and calls the callback
ProcDequeue(w) ==
    /\ pr.phase = "processing"
    /\ pw[w].pc = "idle"
    /\ pr.next <= pr.TotalFiles
    /\ LET p == [pr EXCEPT !.next = @ + 1, !.processedCount = @ + 1]
       IN  /\ pr' = p
           /\ callbacks' = Called(p, p.phase)
    /\ pw' = [pw EXCEPT ![w] = [pc |-> "check", file |-> pr.next]]
    /\ dispatch' = [dispatch EXCEPT ![pr.next].by = @ \cup {w},
                                    ![pr.next].dequeued = @ + 1]
    /\ UNCHANGED <<tierVars, pipeVars, jobVars, writeVars, runVars, loadVars, monVars, videoVars, raceVars, stateVars, retainVars, configVars, discVars, scaleVars>>

\* IsFileProcessed: the file is skipped, or goes to its transformer
ProcCheck(w) ==
    /\ pw[w].pc = "check"
    /\ \E processed \in BOOLEAN :
         IF processed
         THEN /\ pw' = [pw EXCEPT ![w] = [pc |-> "idle", file |-> 0]]
              /\ dispatch' = [dispatch EXCEPT ![pw[w].file].skipped = @ + 1]
         ELSE /\ pw' = [pw EXCEPT ![w].pc = "process"]
              /\ dispatch' = [dispatch EXCEPT ![pw[w].file].transformed = @ + 1]
    /\ UNCHANGED <<pr, callbacks>>
    /\ UNCHANGED <<tierVars, pipeVars, jobVars, writeVars, runVars, loadVars, monVars, videoVars, raceVars, stateVars, retainVars, configVars, discVars, scaleVars>>

\* ProcessPhoto or ProcessVideo returns, with or without an error
ProcTransform(w) ==
    /\ pw[w].pc = "process"
    /\ \E failed \in BOOLEAN :
         /\ pw' = [pw EXCEPT ![w] = [pc |-> AfterTransform(failed), file |-> 0]]
         /\ dispatch' = [dispatch EXCEPT ![pw[w].file].failed = IF failed THEN @ + 1 ELSE @]
    /\ UNCHANGED <<pr, callbacks>>
    /\ UNCHANGED <<tierVars, pipeVars, jobVars, writeVars, runVars, loadVars, monVars, videoVars, raceVars, stateVars, retainVars, configVars, discVars, scaleVars>>

\* `for file := range workChan` ends on the closed, empty channel: the goroutine returns
ProcExit(w) ==
    /\ pr.phase = "processing"
    /\ pw[w].pc = "idle"
    /\ pr.next > pr.TotalFiles
    /\ pw' = [pw EXCEPT ![w].pc = "exited"]
    /\ UNCHANGED <<pr, dispatch, callbacks>>
    /\ UNCHANGED <<tierVars, pipeVars, jobVars, writeVars, runVars, loadVars, monVars, videoVars, raceVars, stateVars, retainVars, configVars, discVars, scaleVars>>

\* wg.Wait returns once every worker has; processFiles and ProcessDirectory return
ProcFinish ==
    /\ pr.phase = "processing"
    /\ \A w \in 1..Len(pw) : pw[w].pc = "exited"
    /\ pr' = [pr EXCEPT !.phase = "done"]
    /\ UNCHANGED <<pw, dispatch, callbacks>>
    /\ UNCHANGED <<tierVars, pipeVars, jobVars, writeVars, runVars, loadVars, monVars, videoVars, raceVars, stateVars, retainVars, configVars, discVars, scaleVars>>

ProcInit ==
    /\ ProcStart
    /\ JobStart
    /\ TierStart({CHOOSE c \in Configs : Validate(c)})
    /\ PipeStart({<<>>})
    /\ WriteStart
    /\ RunStart
    /\ LoadStart({NoConfigFile})
    /\ MonitorStart({0})
    /\ VideoStart({BothTools})
    /\ RaceStart
    /\ StateStart({0})
    /\ RetentionStart({NoJobFiles})
    /\ ConfigStart
    /\ DiscoveryStart({{}})
    /\ ScaleStart

ProcWorkers ==
    \/ \E w \in 1..Len(pw) : ProcDequeue(w)
    \/ \E w \in 1..Len(pw) : ProcCheck(w)
    \/ \E w \in 1..Len(pw) : ProcTransform(w)
    \/ \E w \in 1..Len(pw) : ProcExit(w)

ProcNext ==
    \/ ProcBegin
    \/ ProcDiscover
    \/ ProcSize
    \/ ProcStartProcessing
    \/ ProcWorkers
    \/ ProcFinish

SpecProcess == ProcInit /\ [][ProcNext]_vars

\* the Go scheduler runs every goroutine that can run, and every transformation returns
SpecProcessFair ==
    /\ SpecProcess
    /\ \A w \in 1..MaxWorkers :
          /\ WF_vars(w \in 1..Len(pw) /\ ProcDequeue(w))
          /\ WF_vars(w \in 1..Len(pw) /\ ProcCheck(w))
          /\ WF_vars(w \in 1..Len(pw) /\ ProcTransform(w))
          /\ WF_vars(w \in 1..Len(pw) /\ ProcExit(w))
    /\ WF_vars(ProcFinish)

DiscoveredFiles == 1..pr.TotalFiles

Busy(pcs) == Cardinality({ w \in 1..Len(pw) : pw[w].pc \in pcs })

\* C24: processFiles terminates, whatever the transformations return; no file is ever
\* received twice or handled twice, and when processFiles has returned every discovered
\* file has been received by exactly one worker and either skipped as already processed
\* or handed to a transformer exactly once, the files queued behind a failed one
\* included.
C24_ExactlyOnceDispatch ==
    /\ [](\A f \in 1..MaxProcFiles :
            /\ dispatch[f].dequeued <= 1
            /\ Cardinality(dispatch[f].by) <= 1
            /\ dispatch[f].skipped + dispatch[f].transformed <= 1)
    /\ [](pr.phase = "done" =>
            \A f \in DiscoveredFiles :
                /\ dispatch[f].dequeued = 1
                /\ Cardinality(dispatch[f].by) = 1
                /\ dispatch[f].skipped + dispatch[f].transformed = 1)
    /\ (pr.phase = "processing" ~> pr.phase = "done")

\* processFiles has returned from a run of two files in which the first file failed
\* and the second, queued behind it, went to its transformer and succeeded
C24_Witness ==
    /\ pr.phase = "done"
    /\ pr.TotalFiles = 2
    /\ dispatch[1].failed = 1
    /\ dispatch[2].transformed = 1
    /\ dispatch[2].failed = 0

\* C25: the goroutines processFiles starts are as many as the job's MaxConcurrency when
\* that is > 0 and as many as MaxConcurrentJobs otherwise, and at no moment are more
\* files than that in the hands of workers or being transformed.
C25_BoundedPool ==
    LET pool == IF pr.MaxConcurrency > 0 THEN pr.MaxConcurrency ELSE pr.MaxConcurrentJobs
    IN  /\ pr.phase \in {"processing", "done"} => Len(pw) = pool
        /\ pr.phase \notin {"processing", "done"} => Len(pw) = 0
        /\ Busy({"process"}) <= pool
        /\ Busy({"check", "process"}) <= pool
        /\ Cardinality({ f \in 1..MaxProcFiles :
                           dispatch[f].dequeued > 0 /\ \E w \in 1..Len(pw) : pw[w].file = f })
             <= pool

\* a job with MaxConcurrency 1 under a configuration that allows 2: one file is being
\* transformed while the other waits in the channel
C25_Witness ==
    /\ pr.phase = "processing"
    /\ pr.MaxConcurrency = 1
    /\ pr.MaxConcurrentJobs = 2
    /\ pr.TotalFiles = 2
    /\ pr.next = 2
    /\ Busy({"process"}) = 1

\* C26: every discovery callback precedes every processing callback; the processing
\* callbacks all carry the number of files discovered and the total size the size loop
\* computed; and no file is received before discovery and the size loop have ended.
C26_PhaseOrdering ==
    /\ \A i, k \in 1..Len(callbacks) :
          (i < k /\ callbacks[i].Phase = "processing") => callbacks[k].Phase = "processing"
    /\ \A i \in 1..Len(callbacks) :
          callbacks[i].Phase \in {"discovery", "processing"}
    /\ \A i \in 1..Len(callbacks) :
          callbacks[i].Phase = "processing" =>
              /\ callbacks[i].TotalFiles = pr.tree
              /\ callbacks[i].TotalBytes = pr.totalSize
              /\ pr.sized = pr.tree
    /\ \A f \in 1..MaxProcFiles :
          dispatch[f].dequeued > 0 =>
              /\ pr.TotalFiles = pr.tree
              /\ pr.sized = pr.tree
              /\ pr.TotalBytes = pr.totalSize

\* a run of two files with a callback has ended: one discovery callback, then three
\* processing callbacks, all with 2 files and the 3 bytes of the two files
C26_Witness ==
    /\ pr.phase = "done"
    /\ Len(callbacks) = 4
    /\ callbacks[1].Phase = "discovery"
    /\ \A i \in 2..4 : /\ callbacks[i].Phase = "processing"
                       /\ callbacks[i].TotalFiles = 2
                       /\ callbacks[i].TotalBytes = FileSize(1) + FileSize(2)

(***************************************************************************)
(* JobManager.CleanupOldJobs                                               *)
(***************************************************************************)
\* time.Now().AddDate(0, 0, -daysToKeep)
Cutoff(daysToKeep) == today - daysToKeep

\* t.Before(u)
Before(t, u) == t < u

\* the test of the loop body
shouldDelete(job, cutoff) ==
    IF job.Status = "completed" \/ job.Status = "failed"
    THEN IF job.CompletedAt # NoDate /\ Before(job.CompletedAt, cutoff) THEN TRUE
         ELSE IF Before(job.CreatedAt, cutoff) THEN TRUE
         ELSE FALSE
    ELSE FALSE

\* CleanupOldJobs(daysToKeep): DeleteJob of every listed job the test picks
CleanupOldJobs ==
    /\ \E daysToKeep \in 0..MaxDay :
         /\ jobFiles' = [j \in JobIds |->
                           IF jobFiles[j].present /\ shouldDelete(jobFiles[j], Cutoff(daysToKeep))
                           THEN NoJobFile ELSE jobFiles[j]]
         /\ cleanupOut' = [called |-> TRUE, daysToKeep |-> daysToKeep, before |-> jobFiles]
    /\ UNCHANGED today
    /\ UNCHANGED <<tierVars, pipeVars, jobVars, writeVars, runVars, loadVars, monVars, videoVars, raceVars, stateVars, procVars, configVars, discVars, scaleVars>>

RetentionInit ==
    /\ RetentionStart([JobIds -> JobFileRecords])
    /\ TierStart({CHOOSE c \in Configs : Validate(c)})
    /\ PipeStart({<<>>})
    /\ JobStart
    /\ WriteStart
    /\ RunStart
    /\ LoadStart({NoConfigFile})
    /\ MonitorStart({0})
    /\ VideoStart({BothTools})
    /\ RaceStart
    /\ StateStart({0})
    /\ ProcStart
    /\ ConfigStart
    /\ DiscoveryStart({{}})
    /\ ScaleStart

RetentionNext == CleanupOldJobs

SpecRetention == RetentionInit /\ [][RetentionNext]_vars

\* C33: a CleanupOldJobs(d) call removes no pending, running or canceled job, removes
\* every completed or failed job completed more than d days ago, and removes no
\* completed or failed job completed within the last d days.
C33_RetentionCleanup ==
    cleanupOut.called =>
        \A j \in JobIds :
            LET job == cleanupOut.before[j]
                old == job.CompletedAt < today - cleanupOut.daysToKeep
            IN  job.present =>
                  /\ job.Status \in {"pending", "running", "canceled"} => jobFiles[j] = job
                  /\ (job.Status \in {"completed", "failed"} /\ old) => ~jobFiles[j].present
                  /\ (job.Status \in {"completed", "failed"} /\ ~old) => jobFiles[j] = job

(***************************************************************************)
(* BackupHandlers.HandleBackupConfigSave                                   *)
(***************************************************************************)
\* a form value: no text, text that is no number, or the decimal text of n
NoText == [kind |-> "empty", n |-> 0]
NotANumber == [kind |-> "text", n |-> 0]
Decimal(n) == [kind |-> "int", n |-> n]

\* strconv.Atoi / strconv.ParseInt of a form value that is not empty
Atoi(v) == [n |-> v.n, err |-> v.kind # "int"]

\* what the form can carry in each field
ConfigForms ==
    [data_dir : {""} \cup DataDirs,
     storage_limit_gb : {NoText, NotANumber, Decimal(0), Decimal(200)},
     job_retention_days : {NoText, Decimal(0)},
     log_level : {"", "debug", "verbose"},
     max_concurrent_jobs : {NoText, Decimal(0), Decimal(4)}]

\* "Update configuration from form": each field that is given, and parses, is assigned
FromForm(cfg, form) ==
    [DataDir |-> IF form.data_dir # "" THEN form.data_dir ELSE cfg.DataDir,
     StorageLimitGB |->
        IF form.storage_limit_gb.kind # "empty" /\ ~Atoi(form.storage_limit_gb).err
        THEN Atoi(form.storage_limit_gb).n ELSE cfg.StorageLimitGB,
     JobRetentionDays |->
        IF form.job_retention_days.kind # "empty" /\ ~Atoi(form.job_retention_days).err
        THEN Atoi(form.job_retention_days).n ELSE cfg.JobRetentionDays,
     LogLevel |-> IF form.log_level # "" THEN form.log_level ELSE cfg.LogLevel,
     MaxConcurrentJobs |->
        IF form.max_concurrent_jobs.kind # "empty" /\ ~Atoi(form.max_concurrent_jobs).err
        THEN Atoi(form.max_concurrent_jobs).n ELSE cfg.MaxConcurrentJobs]

validateDataDir(dataDir) == dataDir # "" /\ dataDir = "/var/backup"

validLogLevels == {"debug", "info", "warn", "error"}

\* ValidateBackupConfig: the fields of the errors it returns
ValidateBackupConfig(cfg) ==
    (IF validateDataDir(cfg.DataDir) THEN {} ELSE {"data_dir"})
    \cup (IF cfg.StorageLimitGB <= 0 THEN {"storage_limit_gb"} ELSE {})
    \cup (IF cfg.JobRetentionDays < 1 THEN {"job_retention_days"} ELSE {})
    \cup (IF cfg.LogLevel \in validLogLevels THEN {} ELSE {"log_level"})
    \cup (IF cfg.MaxConcurrentJobs < 1 \/ cfg.MaxConcurrentJobs > 10
          THEN {"processing_settings.max_concurrent_jobs"} ELSE {})

\* HandleBackupConfigSave: bh.config is assigned field by field, then validated; with
\* errors the form is rendered again; without, the directories are made and the
\* configuration saved under its data directory, either of which can fail
HandleBackupConfigSave ==
    /\ \E form \in ConfigForms, io \in {"ok", "mkdirfail", "savefail"} :
         LET updated  == FromForm(bhConfig, form)
             rejected == ValidateBackupConfig(updated) # {}
         IN  /\ bhConfig' = updated
             /\ configFiles' =
                  IF rejected \/ io # "ok" THEN configFiles
                  ELSE [configFiles EXCEPT ![updated.DataDir] =
                           [saved |-> TRUE, config |-> updated]]
             /\ saveOut' = [called |-> TRUE, rejected |-> rejected,
                            err |-> ~rejected /\ io # "ok"]
    /\ UNCHANGED <<tierVars, pipeVars, jobVars, writeVars, runVars, loadVars, monVars, videoVars, raceVars, stateVars, procVars, retainVars, discVars, scaleVars>>

ConfigInit ==
    /\ ConfigStart
    /\ RetentionStart({NoJobFiles})
    /\ TierStart({CHOOSE c \in Configs : Validate(c)})
    /\ PipeStart({<<>>})
    /\ JobStart
    /\ WriteStart
    /\ RunStart
    /\ LoadStart({NoConfigFile})
    /\ MonitorStart({0})
    /\ VideoStart({BothTools})
    /\ RaceStart
    /\ StateStart({0})
    /\ ProcStart
    /\ DiscoveryStart({{}})
    /\ ScaleStart

ConfigNext == HandleBackupConfigSave

SpecConfig == ConfigInit /\ [][ConfigNext]_vars

\* C36: a HandleBackupConfigSave request whose values ValidateBackupConfig rejected
\* leaves the configuration in memory and the saved configuration files as they were
\* before the request.
C36_RejectedChangesNothing ==
    [][(saveOut'.called /\ saveOut'.rejected) =>
          (bhConfig' = bhConfig /\ configFiles' = configFiles)]_vars

(***************************************************************************)
(* HandleCreateJob's patterns and Pipeline.discoverFiles under them        *)
(***************************************************************************)
\* strings.Split(s, ","): the pieces between the commas; one empty piece for ""
RECURSIVE Split(_)
Split(s) ==
    IF \A i \in 1..Len(s) : s[i] # ","
    THEN <<s>>
    ELSE LET c == CHOOSE i \in 1..Len(s) : s[i] = "," /\ \A k \in 1..(i - 1) : s[k] # ","
         IN  <<SubSeq(s, 1, c - 1)>> \o Split(SubSeq(s, c + 1, Len(s)))

\* filepath.Base of a file path: what follows the last separator
Base(path) ==
    LET seps == { i \in 1..Len(path) : path[i] = "/" }
    IN  IF seps = {} THEN path
        ELSE SubSeq(path, (CHOOSE i \in seps : \A k \in seps : k <= i) + 1, Len(path))

\* filepath.Ext
Ext(path) == IF Len(path) = 0 THEN "" ELSE path[Len(path)]

\* filepath.Match(pattern, name): a star stands for any run of non-separators, every
\* other piece for itself
RECURSIVE Match(_, _)
Match(pattern, name) ==
    IF pattern = <<>> THEN name = <<>>
    ELSE IF Head(pattern) = "*"
         THEN \E k \in 0..Len(name) :
                 /\ \A i \in 1..k : name[i] # "/"
                 /\ Match(Tail(pattern), SubSeq(name, k + 1, Len(name)))
         ELSE name # <<>> /\ Head(name) = Head(pattern) /\ Match(Tail(pattern), Tail(name))

\* strings.Contains(s, substr); true of every s when substr is empty
Contains(s, substr) ==
    \E i \in 1..(Len(s) + 1) :
        i + Len(substr) - 1 <= Len(s) /\ SubSeq(s, i, i + Len(substr) - 1) = substr

PatternHits(pattern, filePath) ==
    Match(pattern, Base(filePath)) \/ Contains(filePath, pattern)

shouldIncludeFile(filePath, includePatterns, excludePatterns) ==
    IF \E i \in 1..Len(excludePatterns) : PatternHits(excludePatterns[i], filePath)
    THEN FALSE
    ELSE IF Len(includePatterns) = 0 THEN TRUE
    ELSE \E i \in 1..Len(includePatterns) : PatternHits(includePatterns[i], filePath)

IsPhotoFile(filePath) == Ext(filePath) \in {".jpg"}
IsVideoFile(filePath) == Ext(filePath) \in {".mp4"}

\* what the form fields include_patterns and exclude_patterns can carry
PatternTexts == { <<>>, <<"*", ".jpg">>, <<"tmp">>, <<"*", ".mp4", ",", "a", ".jpg">> }

\* HandleCreateJob makes the job from the form, and the run of the job discovers the
\* files of its source path
CreateJobAndDiscover ==
    /\ \E include_patterns \in PatternTexts, exclude_patterns \in PatternTexts :
         LET IncludePatterns == Split(include_patterns)
             ExcludePatterns == Split(exclude_patterns)
         IN  discovered' =
                [called |-> TRUE, include_patterns |-> include_patterns,
                 exclude_patterns |-> exclude_patterns,
                 files |-> { f \in srcTree :
                               /\ shouldIncludeFile(f, IncludePatterns, ExcludePatterns)
                               /\ (IsPhotoFile(f) \/ IsVideoFile(f)) }]
    /\ UNCHANGED srcTree
    /\ UNCHANGED <<tierVars, pipeVars, jobVars, writeVars, runVars, loadVars, monVars, videoVars, raceVars, stateVars, procVars, retainVars, configVars, scaleVars>>

DiscoveryInit ==
    /\ DiscoveryStart(SUBSET SourceFiles)
    /\ ConfigStart
    /\ RetentionStart({NoJobFiles})
    /\ TierStart({CHOOSE c \in Configs : Validate(c)})
    /\ PipeStart({<<>>})
    /\ JobStart
    /\ WriteStart
    /\ RunStart
    /\ LoadStart({NoConfigFile})
    /\ MonitorStart({0})
    /\ VideoStart({BothTools})
    /\ RaceStart
    /\ StateStart({0})
    /\ ProcStart
    /\ ScaleStart

DiscoveryNext == CreateJobAndDiscover

SpecDiscovery == DiscoveryInit /\ [][DiscoveryNext]_vars

\* the patterns a form text names: its pieces between commas, none for an empty text
Named(text) == IF text = <<>> THEN {} ELSE { Split(text)[i] : i \in 1..Len(Split(text)) }

\* C37: a job made with both pattern fields empty discovers every photo and video file
\* of its source path; with the exclude field empty every photo or video file an
\* include pattern matches is discovered; a file an exclude pattern matches is never
\* discovered.
C37_BlankPatterns ==
    discovered.called =>
        LET media == { f \in srcTree : IsPhotoFile(f) \/ IsVideoFile(f) }
            inc   == Named(discovered.include_patterns)
            exc   == Named(discovered.exclude_patterns)
        IN  /\ (inc = {} /\ exc = {}) => discovered.files = media
            /\ exc = {} =>
                  \A f \in media :
                      (inc = {} \/ \E p \in inc : PatternHits(p, f)) => f \in discovered.files
            /\ \A f \in media :
                  (\E p \in exc : PatternHits(p, f)) => f \notin discovered.files

(***************************************************************************)
(* VideoProcessor.transcodeVideo: the scale filter                         *)
(***************************************************************************)
\* frame sizes ffprobe reports
FrameWidths == {2, 480, 853, 1280, 1920, 3840}
FrameHeights == {480, 720, 1080, 2160}

\* validateQualityTiers on video_max_height: "must be greater than 0"
ValidVideoMaxHeight(h) == h > 0

\* the heights of the tiers met, with the three of GetDefaultConfig among them
TierMaxHeights == { h \in {0, 1, 480, 719, 720, 1080} : ValidVideoMaxHeight(h) }

\* int(float64(newHeight) * aspectRatio): the product of the height and the ratio
\* Width / Height, cut to an integer
ScaledWidth(width, height, newHeight) == (newHeight * width) \div height

\* "Ensure width is even": one less when odd
EvenWidth(newWidth) == IF newWidth % 2 # 0 THEN newWidth - 1 ELSE newWidth

\* transcodeVideo: "-vf scale=W:H" is added when the source is higher than the tier
\* allows
transcodeVideo ==
    /\ \E width \in FrameWidths, height \in FrameHeights, maxHeight \in TierMaxHeights :
         scaleOut' =
            IF height > maxHeight
            THEN [called |-> TRUE, Width |-> width, Height |-> height,
                  VideoMaxHeight |-> maxHeight, scaled |-> TRUE,
                  newWidth |-> EvenWidth(ScaledWidth(width, height, maxHeight)),
                  newHeight |-> maxHeight]
            ELSE [NoScale EXCEPT !.called = TRUE, !.Width = width, !.Height = height,
                                 !.VideoMaxHeight = maxHeight]
    /\ UNCHANGED <<tierVars, pipeVars, jobVars, writeVars, runVars, loadVars, monVars, videoVars, raceVars, stateVars, procVars, retainVars, configVars, discVars>>

ScaleInit ==
    /\ ScaleStart
    /\ DiscoveryStart({{}})
    /\ ConfigStart
    /\ RetentionStart({NoJobFiles})
    /\ TierStart({CHOOSE c \in Configs : Validate(c)})
    /\ PipeStart({<<>>})
    /\ JobStart
    /\ WriteStart
    /\ RunStart
    /\ LoadStart({NoConfigFile})
    /\ MonitorStart({0})
    /\ VideoStart({BothTools})
    /\ RaceStart
    /\ StateStart({0})
    /\ ProcStart

ScaleNext == transcodeVideo

SpecScale == ScaleInit /\ [][ScaleNext]_vars

\* C38: when transcodeVideo adds a scale filter, the width and the height it names are
\* even and positive, the height is not above the tier's VideoMaxHeight, and the width
\* is the aspect-preserving width rounded down to an even number.
C38_EvenDimensions ==
    (scaleOut.called /\ scaleOut.scaled) =>
        /\ scaleOut.newWidth > 0 /\ scaleOut.newWidth % 2 = 0
        /\ scaleOut.newHeight > 0 /\ scaleOut.newHeight % 2 = 0
        /\ scaleOut.newHeight <= scaleOut.VideoMaxHeight
        /\ scaleOut.newWidth =
              2 * (((scaleOut.newHeight * scaleOut.Width) \div scaleOut.Height) \div 2)

====
